---- MODULE Spec2Model ----
(***************************************************************************)
(* A model of the rule evaluator (ast_to_python.py, indicators.py) and of  *)
(* the long-only backtester (simulator.py).                                *)
(*                                                                         *)
(* Conventions.                                                            *)
(*  - Python positions are 0-based, TLA+ sequences are 1-based: bar i of   *)
(*    the code is element i + 1 of a column.  The variable i keeps the     *)
(*    code's 0-based value.                                                *)
(*  - An Optional value is None (the empty sequence) or Some(v) (<<v>>).   *)
(*  - Floating point numbers that the code divides are exact fractions     *)
(*    <<numerator, denominator>> in lowest terms, denominator positive.    *)
(*  - A missing value (pandas NaN) is the empty sequence NaN; every        *)
(*    ordering comparison with it is false, as in IEEE arithmetic.         *)
(***************************************************************************)
EXTENDS Integers, Sequences, FiniteSets, TLC

\* Longest price series that is explored.
MaxBars == 3

\* Backtester.__init__'s default initial_capital.
InitialCapital == 100000

\* The prices a bar's open and close are drawn from.
PriceValues == {1, 2}

\* The closes and the volumes of the frames the evaluator is given.
CloseValues == {1, 2, 3}

VolumeValues == {1, 3}

\* The SMA period of the rules of the tests.
SmaPeriod == 20

\* The RSI period of the rules of the tests.
RsiPeriod == 14

\* The first timestamp of a price series; bar i is dated BaseDate + i.
BaseDate == 20230101

VARIABLES
    pc,                 \* position in Backtester.run
    df,                 \* run's argument df
    signals_in,         \* run's argument signals, as the caller passed it
    signals,            \* run's local signals (after the alignment step)
    i,                  \* the loop variable of run, 0-based
    capital,            \* self.capital
    trades,             \* self.trades
    equity_curve,       \* self.equity_curve
    current_position,   \* self.current_position
    results,            \* the value run returns
    prev_results,       \* what the caller got from the previous call of run
    ev_df,              \* generate_signals' argument df
    ast,                \* generate_signals' argument ast
    ev_out,             \* what generate_signals returned or raised
    sma_series,         \* sma's argument series
    sma_window,         \* sma's argument window
    sma_out,            \* what sma returned
    dsl_text,           \* DSLParser.parse's argument, as a token sequence
    parse_out           \* what DSLParser.parse returned or raised

simVars == <<pc, df, signals_in, signals, i, capital, trades, equity_curve,
             current_position, results, prev_results>>

evalVars == <<ev_df, ast, ev_out>>

indVars == <<sma_series, sma_window, sma_out>>

parseVars == <<dsl_text, parse_out>>

\* What a call of run is given and what its caller holds: fixed during the call.
callVars == <<df, signals_in, signals, prev_results>>

vars == <<pc, df, signals_in, signals, i, capital, trades, equity_curve,
          current_position, results, prev_results, ev_df, ast, ev_out,
          sma_series, sma_window, sma_out, dsl_text, parse_out>>

----------------------------------------------------------------------------
\* Optional values

None == <<>>

Some(v) == <<v>>

\* What a call yields: a value, or the error it raised.
Ok(v) == [err |-> "", val |-> v]

Err(msg) == [err |-> msg, val |-> <<>>]

----------------------------------------------------------------------------
\* Exact fractions standing for the code's floats

Abs(x) == IF x < 0 THEN -x ELSE x

RECURSIVE GCD(_, _)
GCD(a, b) == IF b = 0 THEN a ELSE GCD(b, a % b)

\* n / d in lowest terms with a positive denominator (d # 0).
Rat(n, d) ==
    LET g == GCD(Abs(n), Abs(d))
        s == IF d < 0 THEN -1 ELSE 1
    IN  <<(s * n) \div g, (s * d) \div g>>

RatInt(n) == <<n, 1>>

RatAdd(a, b) == Rat(a[1] * b[2] + b[1] * a[2], a[2] * b[2])

RatSub(a, b) == Rat(a[1] * b[2] - b[1] * a[2], a[2] * b[2])

RatMul(a, b) == Rat(a[1] * b[1], a[2] * b[2])

RatDiv(a, b) == Rat(a[1] * b[2], a[2] * b[1])

RatLt(a, b) == a[1] * b[2] < b[1] * a[2]

RatLe(a, b) == a[1] * b[2] <= b[1] * a[2]

----------------------------------------------------------------------------
\* The inputs of Backtester.run

RequiredCols == {"open", "high", "low", "close", "volume"}

SignalCols == {"entry", "exit"}

\* pd.date_range: n consecutive timestamps.
DateRange(n) == [k \in 1..n |-> BaseDate + k - 1]

\* A column that the frame lacks carries no data.
ColumnData(cols, name, n, values) ==
    IF name \in cols THEN [1..n -> values] ELSE {<<>>}

\* Price frames: the index, the set of columns, and the two columns run reads.
Frames ==
    UNION { UNION { [index : {DateRange(n)}, columns : {cols},
                     open : ColumnData(cols, "open", n, PriceValues),
                     close : ColumnData(cols, "close", n, PriceValues)]
                    : cols \in {RequiredCols, RequiredCols \ {"volume"}} }
            : n \in 0..MaxBars }

\* Signal frames over the same index as a price frame of n bars.
SignalFrames(n) ==
    UNION { [index : {DateRange(n)}, columns : {cols},
             entry : ColumnData(cols, "entry", n, BOOLEAN),
             exit : ColumnData(cols, "exit", n, BOOLEAN)]
            : cols \in {SignalCols, {"entry"}, {"exit"}} }

\* The index of n rows dated one day later than a price frame's.
LaterIndex(n) == [k \in 1..n |-> BaseDate + k]

\* An index of n >= 2 rows whose first timestamp occurs twice.
RepeatedIndex(n) == [k \in 1..n |-> BaseDate + (IF k = 1 THEN 0 ELSE k - 2)]

\* Signal frames, with both columns, over an index that is not the price
\* frame's n dates: one row short (one row for a frame of no rows) with any
\* signals, n rows dated one day later with entry signals only, or n >= 2
\* rows with a repeated timestamp and the same entry signal on every row.
MisalignedSignalFrames(n) ==
    [index : {DateRange(IF n = 0 THEN 1 ELSE n - 1)}, columns : {SignalCols},
     entry : [1..(IF n = 0 THEN 1 ELSE n - 1) -> BOOLEAN],
     exit : [1..(IF n = 0 THEN 1 ELSE n - 1) -> BOOLEAN]]
    \cup [index : {LaterIndex(n)} \ {<<>>}, columns : {SignalCols},
          entry : [1..n -> BOOLEAN],
          exit : {[k \in 1..n |-> FALSE]}]
    \cup [index : IF n >= 2 THEN {RepeatedIndex(n)} ELSE {},
          columns : {SignalCols},
          entry : {[k \in 1..n |-> b] : b \in BOOLEAN},
          exit : {[k \in 1..n |-> FALSE]}]

NBars(d) == Len(d.index)

\* df.index[i], df.iloc[i]['open'], df.iloc[i]['close'] for a 0-based i.
BarDate(d, k) == d.index[k + 1]

BarOpen(d, k) == d.open[k + 1]

BarClose(d, k) == d.close[k + 1]

\* Mutant: the check fails only when both signal columns are missing.
MissingSignalColsBoth(s) ==
    IF s.columns \cap SignalCols = {} THEN SignalCols ELSE {}

\* Mutant: only the columns run reads are required.
MissingColsUsed(d) == {"open", "close"} \ d.columns

\* The columns of required_cols that df lacks.
MissingCols(d) == RequiredCols \ d.columns

MissingSignalCols(s) == SignalCols \ s.columns

\* Index.is_unique is false: some label of idx occurs more than once.
DuplicateLabels(idx) ==
    \E j, k \in 1..Len(idx) : j # k /\ idx[j] = idx[k]

\* Mutant: a repeated date is served by its first row instead of raising.
ReindexFirstRow(s, idx) ==
    LET Row(date) == { k \in 1..Len(s.index) : s.index[k] = date }
        First(date) == CHOOSE k \in Row(date) : \A j \in Row(date) : k <= j
        At(col, date) == IF Row(date) = {} THEN FALSE ELSE col[First(date)]
    IN  Ok([index |-> idx, columns |-> s.columns,
            entry |-> [k \in 1..Len(idx) |-> At(s.entry, idx[k])],
            exit |-> [k \in 1..Len(idx) |-> At(s.exit, idx[k])]])

\* signals.reindex(df.index, fill_value=False): pandas raises ValueError when
\* a label of signals.index is repeated; otherwise the result holds the row of
\* each date of idx, and False where the signals have no such date.
Reindex(s, idx) ==
    LET Row(date) == { k \in 1..Len(s.index) : s.index[k] = date }
        At(col, date) == IF Row(date) = {} THEN FALSE
                         ELSE col[CHOOSE k \in Row(date) : TRUE]
    IN  IF DuplicateLabels(s.index)
        THEN Err("cannot reindex on an axis with duplicate labels")
        ELSE Ok([index |-> idx, columns |-> s.columns,
                 entry |-> [k \in 1..Len(idx) |-> At(s.entry, idx[k])],
                 exit |-> [k \in 1..Len(idx) |-> At(s.exit, idx[k])]])

\* Lines 75-77: the signals as given when their index equals df's, else
\* reindexed to it.
AlignedSignals(d, s) ==
    IF d.index = s.index THEN Ok(s) ELSE Reindex(s, d.index)

----------------------------------------------------------------------------
\* The steps of Backtester.run

\* Mutant: the signal of the bar itself is acted on (lookahead).
PrevEntrySignalSameBar(s, k) == s.entry[k + 1]

\* Mutant: no guard for bar 0, where iloc[i-1] wraps round to the last row.
PrevEntrySignalWrap(s, k) == s.entry[IF k > 0 THEN k ELSE Len(s.entry)]

\* The entry signal run acts on at bar k: the one of bar k - 1, none at bar 0.
PrevEntrySignal(s, k) == IF k > 0 THEN s.entry[k] ELSE FALSE

PrevExitSignal(s, k) == IF k > 0 THEN s.exit[k] ELSE FALSE

\* _enter_position: the Trade it creates.
OpenTrade(date, price) ==
    [entry_date |-> date, exit_date |-> None,
     entry_price |-> price, exit_price |-> None,
     pnl |-> None, return_pct |-> None]

\* _exit_position: return_pct = (pnl / entry_price) * 100.
ReturnPct(entry_price, price) ==
    RatMul(Rat(price - entry_price, entry_price), RatInt(100))

\* _exit_position: the open trade with its exit fields filled.
ClosedTrade(t, date, price) ==
    [t EXCEPT !.exit_date = Some(date),
              !.exit_price = Some(price),
              !.pnl = Some(price - t.entry_price),
              !.return_pct = Some(ReturnPct(t.entry_price, price))]

\* Mutant: the return is added to the capital instead of compounded.
CompoundedAdditive(cap, return_pct) ==
    RatAdd(cap, RatDiv(return_pct, RatInt(100)))

\* _exit_position: capital = position_value * (1 + return_pct / 100).
Compounded(cap, return_pct) ==
    RatMul(cap, RatAdd(RatInt(1), RatDiv(return_pct, RatInt(100))))

\* Mutant: the unrealized pnl is added to the capital as an absolute amount.
EquityAbsolutePnl(cap, pos, current_close) ==
    IF pos # None
    THEN RatAdd(cap, RatInt(current_close - pos[1].entry_price))
    ELSE cap

\* _update_equity: the value appended for a bar that closes at current_close.
Equity(cap, pos, current_close) ==
    IF pos # None
    THEN LET unrealized_pnl == current_close - pos[1].entry_price
             unrealized_return ==
                 RatMul(Rat(unrealized_pnl, pos[1].entry_price), RatInt(100))
         IN  RatMul(cap, RatAdd(RatInt(1),
                                RatDiv(unrealized_return, RatInt(100))))
    ELSE cap

\* Mutant: the force-close uses the last bar's open, like a signalled exit.
ForceCloseAtOpen(d) == d.open[Len(d.index)]

\* The price run hands to _exit_position when it force-closes.
ForceClosePrice(d) == BarClose(d, NBars(d) - 1)

\* Mutant: the closed trade is put at the head of the ledger.
ExitPositionPrepend(date, price) ==
    IF current_position = None
    THEN UNCHANGED <<capital, trades, current_position>>
    ELSE LET t == ClosedTrade(current_position[1], date, price)
         IN  /\ capital' = Compounded(capital, t.return_pct[1])
             /\ trades' = <<t>> \o trades
             /\ current_position' = None

\* _exit_position as a state change.
ExitPosition(date, price) ==
    IF current_position = None
    THEN UNCHANGED <<capital, trades, current_position>>
    ELSE LET t == ClosedTrade(current_position[1], date, price)
         IN  /\ capital' = Compounded(capital, t.return_pct[1])
             /\ trades' = Append(trades, t)
             /\ current_position' = None

----------------------------------------------------------------------------
\* _calculate_metrics

\* Mutant: the drawdown is measured from the first equity value, not from the
\* running maximum.
RunningMaxInitial(e, k) == e[1]

RECURSIVE RunningMax(_, _)
\* np.maximum.accumulate(e)[k]
RunningMax(e, k) ==
    IF k = 1 THEN e[1]
    ELSE LET m == RunningMax(e, k - 1)
         IN  IF RatLt(m, e[k]) THEN e[k] ELSE m

Drawdown(e, k) ==
    RatMul(RatDiv(RatSub(e[k], RunningMax(e, k)), RunningMax(e, k)),
           RatInt(100))

RECURSIVE MinDrawdown(_, _)
\* np.min(drawdown[0..k])
MinDrawdown(e, k) ==
    IF k = 1 THEN Drawdown(e, 1)
    ELSE LET m == MinDrawdown(e, k - 1)
         IN  IF RatLt(Drawdown(e, k), m) THEN Drawdown(e, k) ELSE m

\* Mutant: a trade that breaks even counts as a win.
WinningTradesNonNegative(ts) ==
    { k \in 1..Len(ts) : ts[k].pnl # None /\ ts[k].pnl[1] >= 0 }

WinningTrades(ts) ==
    { k \in 1..Len(ts) : ts[k].pnl # None /\ ts[k].pnl[1] # 0
                          /\ ts[k].pnl[1] > 0 }

\* Mutant: the total return is taken relative to the final capital.
MetricsReturnOverFinal(ts, cap, curve) ==
    IF ts = <<>>
    THEN [trades |-> <<>>, total_return |-> RatInt(0),
          win_rate |-> RatInt(0), num_trades |-> 0,
          max_drawdown |-> RatInt(0), equity_curve |-> curve,
          final_capital |-> cap]
    ELSE [trades |-> ts,
          total_return |->
              RatMul(RatDiv(RatSub(cap, RatInt(InitialCapital)), cap),
                     RatInt(100)),
          win_rate |-> Rat(Cardinality(WinningTrades(ts)), Len(ts)),
          num_trades |-> Len(ts),
          max_drawdown |-> MinDrawdown(curve, Len(curve)),
          equity_curve |-> curve,
          final_capital |-> cap]

Metrics(ts, cap, curve) ==
    IF ts = <<>>
    THEN [trades |-> <<>>, total_return |-> RatInt(0),
          win_rate |-> RatInt(0), num_trades |-> 0,
          max_drawdown |-> RatInt(0), equity_curve |-> curve,
          final_capital |-> cap]
    ELSE [trades |-> ts,
          total_return |->
              RatMul(RatDiv(RatSub(cap, RatInt(InitialCapital)),
                            RatInt(InitialCapital)), RatInt(100)),
          win_rate |-> Rat(Cardinality(WinningTrades(ts)), Len(ts)),
          num_trades |-> Len(ts),
          max_drawdown |-> IF Len(curve) > 0
                           THEN MinDrawdown(curve, Len(curve))
                           ELSE RatInt(0),
          equity_curve |-> curve,
          final_capital |-> cap]

----------------------------------------------------------------------------
\* indicators.py

NaN == <<>>

\* The mean of series[lo..hi], none of them missing.
RECURSIVE SumOf(_, _, _)
SumOf(series, lo, hi) ==
    IF lo > hi THEN RatInt(0)
    ELSE RatAdd(SumOf(series, lo, hi - 1), series[hi])

Max(a, b) == IF a >= b THEN a ELSE b

\* Mutant: a full window is required, as with the default min_periods.
SmaFullWindow(series, window) ==
    [k \in 1..Len(series) |->
        IF k < window THEN NaN
        ELSE RatDiv(SumOf(series, k - window + 1, k), RatInt(window))]

\* Mutant: the sum of the available values over the full window length.
SmaFixedDivisor(series, window) ==
    [k \in 1..Len(series) |->
        LET lo == Max(1, k - window + 1)
        IN  RatDiv(SumOf(series, lo, k), RatInt(window))]

\* sma: series.rolling(window=window, min_periods=1).mean()
Sma(series, window) ==
    [k \in 1..Len(series) |->
        LET lo == Max(1, k - window + 1)
        IN  RatDiv(SumOf(series, lo, k), RatInt(k - lo + 1))]

\* The 1e-10 that rsi adds to the average loss.
Eps == Rat(1, 100000 * 100000)

RECURSIVE Ewm(_, _, _)
\* x.ewm(alpha=1/window, adjust=False).mean() at position k, before the
\* min_periods mask.
Ewm(x, window, k) ==
    IF k = 1 THEN x[1]
    ELSE RatAdd(RatMul(Rat(window - 1, window), Ewm(x, window, k - 1)),
                RatMul(Rat(1, window), x[k]))

\* rsi
Rsi(series, window) ==
    LET n == Len(series)
        delta == [k \in 1..n |->
                     IF k = 1 THEN NaN ELSE RatSub(series[k], series[k - 1])]
        gain == [k \in 1..n |->
                    IF delta[k] # NaN /\ RatLt(RatInt(0), delta[k])
                    THEN delta[k] ELSE RatInt(0)]
        loss == [k \in 1..n |->
                    IF delta[k] # NaN /\ RatLt(delta[k], RatInt(0))
                    THEN RatSub(RatInt(0), delta[k]) ELSE RatInt(0)]
        Value(k) ==
            LET rs == RatDiv(Ewm(gain, window, k),
                             RatAdd(Ewm(loss, window, k), Eps))
            IN  RatSub(RatInt(100),
                       RatDiv(RatInt(100), RatAdd(RatInt(1), rs)))
    IN  [k \in 1..n |-> IF k < window THEN RatInt(50) ELSE Value(k)]

----------------------------------------------------------------------------
\* ast_to_python.py: the evaluator

\* self.field_names
FieldNames == {"open", "high", "low", "close", "volume"}

\* Ordering comparisons of two values, false when either is missing.
Gt(a, b) == a # NaN /\ b # NaN /\ RatLt(b, a)

Lt(a, b) == a # NaN /\ b # NaN /\ RatLt(a, b)

Ge(a, b) == a # NaN /\ b # NaN /\ RatLe(b, a)

Le(a, b) == a # NaN /\ b # NaN /\ RatLe(a, b)

Eq(a, b) == a # NaN /\ b # NaN /\ a = b

\* Mutant: shift(-1), the next bar's value.
ShiftBack(series) ==
    [k \in 1..Len(series) |-> IF k = Len(series) THEN NaN ELSE series[k + 1]]

\* series.shift(1): position k takes the value of position k - 1.
Shift(series) ==
    [k \in 1..Len(series) |-> IF k = 1 THEN NaN ELSE series[k - 1]]

\* name.lower() for the names given as function names: every spelling of
\* sma, rsi and ema in upper and lower case letters; a name in lower case
\* is left as it is.
Lower(name) ==
    CASE name \in {"sma", "Sma", "sMa", "smA", "SMa", "SmA", "sMA", "SMA"}
           -> "sma"
      [] name \in {"rsi", "Rsi", "rSi", "rsI", "RSi", "RsI", "rSI", "RSI"}
           -> "rsi"
      [] name \in {"ema", "Ema", "eMa", "emA", "EMa", "EmA", "eMA", "EMA"}
           -> "ema"
      [] OTHER -> name

\* df[name] as a series of numbers.
Column(d, name) == [k \in 1..Len(d.index) |-> RatInt(d[name][k])]

\* _evaluate_term
EvaluateTerm(d, node) ==
    IF node.type = "field"
    THEN IF node.name \notin FieldNames
         THEN Err("Unknown field")
         ELSE Ok(Column(d, node.name))
    ELSE IF node.type = "func"
    THEN IF node.args[1].type # "field"
         THEN Err("Function first argument must be a field")
         ELSE IF node.args[1].name \notin d.columns
         THEN Err("KeyError")
         ELSE IF node.args[2].type # "number"
         THEN Err("Function second argument must be a number")
         ELSE IF Lower(node.name) = "sma"
         THEN Ok(Sma(Column(d, node.args[1].name), node.args[2].value))
         ELSE IF Lower(node.name) = "rsi"
         THEN Ok(Rsi(Column(d, node.args[1].name), node.args[2].value))
         ELSE Err("Unknown function")
    ELSE IF node.type = "number"
    THEN Ok([k \in 1..Len(d.index) |-> RatInt(node.value)])
    ELSE Err("Unknown term type")

\* _evaluate_comparison, given the two evaluated series
Compare(op, left, right) ==
    IF op = ">" THEN Ok([k \in 1..Len(left) |-> Gt(left[k], right[k])])
    ELSE IF op = "<" THEN Ok([k \in 1..Len(left) |-> Lt(left[k], right[k])])
    ELSE IF op = ">=" THEN Ok([k \in 1..Len(left) |-> Ge(left[k], right[k])])
    ELSE IF op = "<=" THEN Ok([k \in 1..Len(left) |-> Le(left[k], right[k])])
    ELSE IF op = "==" THEN Ok([k \in 1..Len(left) |-> Eq(left[k], right[k])])
    ELSE Err("Unknown operator")

\* _evaluate_cross, given the two evaluated series
Cross(cross_type, left, right) ==
    LET current_above == [k \in 1..Len(left) |-> Gt(left[k], right[k])]
        current_below == [k \in 1..Len(left) |-> Lt(left[k], right[k])]
        prev_above == [k \in 1..Len(left) |->
                          Gt(Shift(left)[k], Shift(right)[k])]
        prev_below == [k \in 1..Len(left) |->
                          Lt(Shift(left)[k], Shift(right)[k])]
    IN  IF cross_type = "above"
        THEN Ok([k \in 1..Len(left) |-> current_above[k] /\ ~prev_above[k]])
        ELSE IF cross_type = "below"
        THEN Ok([k \in 1..Len(left) |-> current_below[k] /\ ~prev_below[k]])
        ELSE Err("Unknown cross type")

\* _evaluate_comparison and _evaluate_cross: the terms first, left then right.
EvaluateBinary(d, node) ==
    LET left == EvaluateTerm(d, node.left)
        right == EvaluateTerm(d, node.right)
    IN  IF left.err # "" THEN left
        ELSE IF right.err # "" THEN right
        ELSE IF node.type = "comparison"
        THEN Compare(node.op, left.val, right.val)
        ELSE Cross(node.cross_type, left.val, right.val)

RECURSIVE EvaluateExpr(_, _)
RECURSIVE EvaluateOperands(_, _, _, _)

\* Mutant: only the first two operands are combined.
EvaluateOperandsPair(d, type, operands, k) ==
    LET result == EvaluateExpr(d, operands[1])
        operand == IF result.err # "" \/ k = 1 THEN result
                   ELSE EvaluateExpr(d, operands[2])
    IN  IF result.err # "" THEN result
        ELSE IF operand.err # "" THEN operand
        ELSE Ok([j \in 1..Len(result.val) |->
                   IF type = "and"
                   THEN result.val[j] /\ operand.val[j]
                   ELSE result.val[j] \/ operand.val[j]])

\* _evaluate_and / _evaluate_or: the first k operands folded left to right.
EvaluateOperands(d, type, operands, k) ==
    IF k = 1 THEN EvaluateExpr(d, operands[1])
    ELSE LET result == EvaluateOperands(d, type, operands, k - 1)
             operand == IF result.err # "" THEN result
                        ELSE EvaluateExpr(d, operands[k])
         IN  IF result.err # "" THEN result
             ELSE IF operand.err # "" THEN operand
             ELSE Ok([j \in 1..Len(result.val) |->
                        IF type = "and"
                        THEN result.val[j] /\ operand.val[j]
                        ELSE result.val[j] \/ operand.val[j]])

\* _evaluate_expr
EvaluateExpr(d, node) ==
    IF node.type \in {"comparison", "cross"} THEN EvaluateBinary(d, node)
    ELSE IF node.type \in {"and", "or"}
    THEN EvaluateOperands(d, node.type, node.operands, Len(node.operands))
    ELSE Err("Unknown node type")

\* Mutant: a section without a rule is set at every bar.
SectionAbsentTrue(d, a, name) ==
    IF name \in DOMAIN a
    THEN EvaluateExpr(d, a[name])
    ELSE Ok([k \in 1..Len(d.index) |-> TRUE])

\* One section of generate_signals: the rule's signal, all False without one.
Section(d, a, name) ==
    IF name \in DOMAIN a
    THEN EvaluateExpr(d, a[name])
    ELSE Ok([k \in 1..Len(d.index) |-> FALSE])

\* generate_signals
GenerateSignals(d, a) ==
    IF RequiredCols \ d.columns # {}
    THEN Err("Missing required columns")
    ELSE LET entry == Section(d, a, "entry")
             exit == IF entry.err # "" THEN entry ELSE Section(d, a, "exit")
         IN  IF entry.err # "" THEN entry
             ELSE IF exit.err # "" THEN exit
             ELSE Ok([index |-> d.index, columns |-> SignalCols,
                      entry |-> entry.val, exit |-> exit.val])

----------------------------------------------------------------------------
\* The inputs of generate_signals

\* A frame built as the tests build theirs: open = close, high = close + 1,
\* low = close - 1.
EvalFrame(cols, c, v) ==
    [index |-> DateRange(Len(c)), columns |-> cols,
     open |-> c, high |-> [k \in 1..Len(c) |-> c[k] + 1],
     low |-> [k \in 1..Len(c) |-> c[k] - 1], close |-> c, volume |-> v]

EvalFrames ==
    UNION { { EvalFrame(RequiredCols, c, v) :
                c \in [1..n -> CloseValues], v \in [1..n -> VolumeValues] }
            \cup { EvalFrame(RequiredCols \ {"volume"}, c, <<>>) :
                     c \in [1..n -> CloseValues] }
            : n \in 0..MaxBars }

FieldNode(name) == [type |-> "field", name |-> name]

NumberNode(value) == [type |-> "number", value |-> value]

FuncNode(name, field, period) ==
    [type |-> "func", name |-> name,
     args |-> <<FieldNode(field), NumberNode(period)>>]

\* The terms of the rules: fields, a literal, SMA and RSI calls.
Terms ==
    {FieldNode("close"), FieldNode("volume"), NumberNode(2),
     FuncNode("SMA", "close", 2), FuncNode("sma", "close", SmaPeriod),
     FuncNode("Rsi", "close", RsiPeriod)}

CrossNodes ==
    { [type |-> "cross", left |-> l, cross_type |-> t, right |-> r] :
        l \in Terms, t \in {"above", "below"}, r \in Terms }

ComparisonNodes ==
    { [type |-> "comparison", left |-> FieldNode("close"), op |-> o,
       right |-> r] : o \in {">", "<", ">=", "<=", "=="}, r \in Terms }

LogicalNodes ==
    { [type |-> t,
       operands |-> <<[type |-> "comparison", left |-> FieldNode("close"),
                       op |-> ">", right |-> NumberNode(2)],
                      [type |-> "cross", left |-> FieldNode("volume"),
                       cross_type |-> "above", right |-> FieldNode("close")]>>]
      : t \in {"and", "or"} }

\* The rule sets: one section, entry or exit.
ASTs ==
    { [entry |-> e] : e \in CrossNodes \cup ComparisonNodes \cup LogicalNodes }
    \cup { [exit |-> e] : e \in CrossNodes }

----------------------------------------------------------------------------
\* The state after Backtester.__init__
Init ==
    /\ pc = "idle"
    /\ df = None
    /\ signals_in = None
    /\ signals = None
    /\ i = 0
    /\ capital = RatInt(InitialCapital)
    /\ trades = <<>>
    /\ equity_curve = <<>>
    /\ current_position = None
    /\ results = None
    /\ prev_results = None
    /\ ev_df = None
    /\ ast = None
    /\ ev_out = None
    /\ sma_series = None
    /\ sma_window = 0
    /\ sma_out = None
    /\ dsl_text = None
    /\ parse_out = None

\* Mutant: the arguments are checked before the state is reset.
RunChecksFirst(d, s) ==
    /\ pc \in {"idle", "done"}
    /\ df' = d
    /\ signals_in' = s
    /\ results' = None
    /\ i' = 0
    /\ IF \/ MissingCols(d) # {}
          \/ MissingSignalCols(s) # {}
          \/ AlignedSignals(d, s).err # ""
       THEN /\ signals' = s
            /\ pc' = "raised"
            /\ UNCHANGED <<capital, trades, equity_curve, current_position>>
       ELSE /\ signals' = AlignedSignals(d, s).val
            /\ pc' = IF NBars(d) = 0 THEN "force_close" ELSE "exit_check"
            /\ capital' = RatInt(InitialCapital)
            /\ trades' = <<>>
            /\ equity_curve' = <<RatInt(InitialCapital)>>
            /\ current_position' = None
    /\ UNCHANGED <<evalVars, indVars, parseVars>>

\* Mutant: the capital and the ledger are set in __init__ only, not by run.
RunKeepsLedger(d, s) ==
    /\ pc \in {"idle", "done"}
    /\ df' = d
    /\ signals_in' = s
    /\ UNCHANGED <<capital, trades>>
    /\ equity_curve' = <<RatInt(InitialCapital)>>
    /\ current_position' = None
    /\ results' = None
    /\ i' = 0
    /\ IF \/ MissingCols(d) # {}
          \/ MissingSignalCols(s) # {}
          \/ AlignedSignals(d, s).err # ""
       THEN /\ signals' = s
            /\ pc' = "raised"
       ELSE /\ signals' = AlignedSignals(d, s).val
            /\ pc' = IF NBars(d) = 0 THEN "force_close" ELSE "exit_check"
    /\ UNCHANGED <<evalVars, indVars, parseVars>>

\* run(d, s) up to the loop: the reset, the two column checks, the alignment.
\* A ValueError of either check or of the reindexing ends the call.
Run(d, s) ==
    /\ pc \in {"idle", "done"}
    /\ df' = d
    /\ signals_in' = s
    /\ capital' = RatInt(InitialCapital)
    /\ trades' = <<>>
    /\ equity_curve' = <<RatInt(InitialCapital)>>
    /\ current_position' = None
    /\ results' = None
    /\ i' = 0
    /\ IF \/ MissingCols(d) # {}
          \/ MissingSignalCols(s) # {}
          \/ AlignedSignals(d, s).err # ""
       THEN /\ signals' = s
            /\ pc' = "raised"
       ELSE /\ signals' = AlignedSignals(d, s).val
            /\ pc' = IF NBars(d) = 0 THEN "force_close" ELSE "exit_check"
    /\ UNCHANGED <<evalVars, indVars, parseVars>>

\* Bar i, first half: close the open position on the previous bar's exit signal.
ExitCheck ==
    /\ pc = "exit_check"
    /\ IF current_position # None /\ PrevExitSignal(signals, i)
       THEN ExitPosition(BarDate(df, i), BarOpen(df, i))
       ELSE UNCHANGED <<capital, trades, current_position>>
    /\ pc' = "enter_check"
    /\ UNCHANGED <<callVars, i, equity_curve, results,
                   evalVars, indVars, parseVars>>

\* Mutant: "elif" for the second "if": a bar that closed a trade opens none.
EnterCheckElif ==
    /\ pc = "enter_check"
    /\ IF /\ current_position = None
          /\ PrevEntrySignal(signals, i)
          /\ ~(trades # <<>>
                /\ trades[Len(trades)].exit_date = Some(BarDate(df, i)))
       THEN current_position' = Some(OpenTrade(BarDate(df, i), BarOpen(df, i)))
       ELSE UNCHANGED current_position
    /\ pc' = "update_equity"
    /\ UNCHANGED <<callVars, i, capital, trades, equity_curve, results,
                   evalVars, indVars, parseVars>>

\* Mutant: the entry is not guarded by "current_position is None".
EnterCheckUnguarded ==
    /\ pc = "enter_check"
    /\ IF PrevEntrySignal(signals, i)
       THEN current_position' = Some(OpenTrade(BarDate(df, i), BarOpen(df, i)))
       ELSE UNCHANGED current_position
    /\ pc' = "update_equity"
    /\ UNCHANGED <<callVars, i, capital, trades, equity_curve, results,
                   evalVars, indVars, parseVars>>

\* Mutant: the entry is checked before the exit, so a position opened on a
\* bar whose previous bar also set the exit signal is closed at once.
EnterCheckThenExit ==
    /\ pc = "enter_check"
    /\ IF current_position = None /\ PrevEntrySignal(signals, i)
       THEN IF PrevExitSignal(signals, i)
            THEN /\ trades' = Append(trades,
                                     ClosedTrade(OpenTrade(BarDate(df, i),
                                                           BarOpen(df, i)),
                                                 BarDate(df, i), BarOpen(df, i)))
                 /\ UNCHANGED current_position
            ELSE /\ current_position' =
                        Some(OpenTrade(BarDate(df, i), BarOpen(df, i)))
                 /\ UNCHANGED trades
       ELSE UNCHANGED <<current_position, trades>>
    /\ pc' = "update_equity"
    /\ UNCHANGED <<callVars, i, capital, equity_curve, results,
                   evalVars, indVars, parseVars>>

\* Bar i, second half: open a position on the previous bar's entry signal.
EnterCheck ==
    /\ pc = "enter_check"
    /\ IF current_position = None /\ PrevEntrySignal(signals, i)
       THEN current_position' = Some(OpenTrade(BarDate(df, i), BarOpen(df, i)))
       ELSE UNCHANGED current_position
    /\ pc' = "update_equity"
    /\ UNCHANGED <<callVars, i, capital, trades, equity_curve, results,
                   evalVars, indVars, parseVars>>

\* Mutant: equity is recorded only while a position is open.
UpdateEquityLongOnly ==
    /\ pc = "update_equity"
    /\ equity_curve' =
           IF current_position # None
           THEN Append(equity_curve,
                       Equity(capital, current_position, BarClose(df, i)))
           ELSE equity_curve
    /\ i' = i + 1
    /\ pc' = IF i + 1 < NBars(df) THEN "exit_check" ELSE "force_close"
    /\ UNCHANGED <<callVars, capital, trades, current_position, results,
                   evalVars, indVars, parseVars>>

\* Mutant: the bar's mark-to-market value is written to the capital.
UpdateEquityRealizes ==
    /\ pc = "update_equity"
    /\ equity_curve' = Append(equity_curve,
                              Equity(capital, current_position, BarClose(df, i)))
    /\ capital' = Equity(capital, current_position, BarClose(df, i))
    /\ i' = i + 1
    /\ pc' = IF i + 1 < NBars(df) THEN "exit_check" ELSE "force_close"
    /\ UNCHANGED <<callVars, trades, current_position, results,
                   evalVars, indVars, parseVars>>

\* Bar i, end: append the bar's equity and move to the next bar.
UpdateEquity ==
    /\ pc = "update_equity"
    /\ equity_curve' = Append(equity_curve,
                              Equity(capital, current_position, BarClose(df, i)))
    /\ i' = i + 1
    /\ pc' = IF i + 1 < NBars(df) THEN "exit_check" ELSE "force_close"
    /\ UNCHANGED <<callVars, capital, trades, current_position, results,
                   evalVars, indVars, parseVars>>

\* Mutant: a position that is still open after the last bar is left open.
ForceCloseSkipped ==
    /\ pc = "force_close"
    /\ pc' = "metrics"
    /\ UNCHANGED <<callVars, i, capital, trades, current_position,
                   equity_curve, results,
                   evalVars, indVars, parseVars>>

\* After the loop: close a position that is still open, at the last close.
ForceClose ==
    /\ pc = "force_close"
    /\ IF current_position # None
       THEN ExitPosition(BarDate(df, NBars(df) - 1), ForceClosePrice(df))
       ELSE UNCHANGED <<capital, trades, current_position>>
    /\ pc' = "metrics"
    /\ UNCHANGED <<callVars, i, equity_curve, results,
                   evalVars, indVars, parseVars>>

\* results = self._calculate_metrics(); return results
CalculateMetrics ==
    /\ pc = "metrics"
    /\ results' = Some(Metrics(trades, capital, equity_curve))
    /\ pc' = "done"
    /\ UNCHANGED <<callVars, i, capital, trades, equity_curve,
                   current_position, evalVars, indVars, parseVars>>

\* A call of run with any price frame and any signal frame over its index.
RunAny ==
    /\ pc = "idle"
    /\ \E d \in Frames :
          \E s \in SignalFrames(NBars(d)) \cup MisalignedSignalFrames(NBars(d)) :
             Run(d, s)
    /\ UNCHANGED prev_results

\* A second call of run on the same instance with the same two arguments; the
\* caller keeps what the first call returned.
RunAgain ==
    /\ pc = "done"
    /\ prev_results = None
    /\ prev_results' = results
    /\ Run(df, signals_in)

\* A second call of run on the same instance that run rejects: the first
\* call's price frame without its volume column, or its signals without
\* their exit column.
RunAgainRejected ==
    /\ pc = "done"
    /\ prev_results = None
    /\ prev_results' = results
    /\ \/ Run([df EXCEPT !.columns = @ \ {"volume"}], signals_in)
       \/ Run(df, [signals_in EXCEPT !.columns = @ \ {"exit"}, !.exit = <<>>])

Next ==
    \/ RunAny
    \/ RunAgain
    \/ RunAgainRejected
    \/ ExitCheck
    \/ EnterCheck
    \/ UpdateEquity
    \/ ForceClose
    \/ CalculateMetrics

Spec == Init /\ [][Next]_vars

\* A call of generate_signals with any frame and any rule set.
Generate ==
    /\ ev_out = None
    /\ \E d \in EvalFrames : \E a \in ASTs :
          /\ ev_df' = d
          /\ ast' = a
          /\ ev_out' = Some(GenerateSignals(d, a))
    /\ UNCHANGED <<simVars, indVars, parseVars>>

NextEval == Generate

SpecEval == Init /\ [][NextEval]_vars

----------------------------------------------------------------------------
\* generate_signals followed by run on the same frame, as the simulator's
\* tests call them

\* df.drop(columns=[name])
DropColumn(d, name) == [d EXCEPT !.columns = @ \ {name}, ![name] = <<>>]

\* The complete frames of the evaluator, and each of them with one column
\* dropped.
PipelineFrames ==
    LET complete == { d \in EvalFrames : d.columns = RequiredCols }
    IN  complete \cup { DropColumn(d, name) : d \in complete,
                                               name \in RequiredCols }

CloseComparison(op, value) ==
    [type |-> "comparison", left |-> FieldNode("close"), op |-> op,
     right |-> NumberNode(value)]

\* The rule sets of the simulator's tests: an entry rule on close, alone or
\* with an exit rule on close.
PipelineASTs ==
    { [entry |-> CloseComparison(o, 2)] : o \in {">", ">="} }
    \cup { [entry |-> CloseComparison(o, 2), exit |-> CloseComparison(x, 2)] :
             o \in {">", ">="}, x \in {"<", "<="} }

\* The signals test_missing_columns passes: False at every bar of d.
AllFalseSignals(d) ==
    [index |-> d.index, columns |-> SignalCols,
     entry |-> [k \in 1..Len(d.index) |-> FALSE],
     exit |-> [k \in 1..Len(d.index) |-> FALSE]]

\* A call of generate_signals with a frame and a rule set of the tests.
GeneratePipeline ==
    /\ pc = "idle"
    /\ ev_out = None
    /\ \E d \in PipelineFrames : \E a \in PipelineASTs :
          /\ ev_df' = d
          /\ ast' = a
          /\ ev_out' = Some(GenerateSignals(d, a))
    /\ UNCHANGED <<simVars, indVars, parseVars>>

\* The call of run that follows: the same frame with the signals just
\* generated, or with all-False signals when generate_signals raised.
RunPipeline ==
    /\ pc = "idle"
    /\ ev_out # None
    /\ Run(ev_df, IF ev_out[1].err = "" THEN ev_out[1].val
                  ELSE AllFalseSignals(ev_df))
    /\ UNCHANGED prev_results

NextPipeline ==
    \/ GeneratePipeline
    \/ RunPipeline
    \/ ExitCheck
    \/ EnterCheck
    \/ UpdateEquity
    \/ ForceClose
    \/ CalculateMetrics

SpecPipeline == Init /\ [][NextPipeline]_vars

----------------------------------------------------------------------------
\* A call of sma on its own

\* The series given to sma: up to MaxBars closes, as numbers.
SmaSeries ==
    UNION { { [k \in 1..n |-> RatInt(c[k])] : c \in [1..n -> CloseValues] }
            : n \in 0..MaxBars }

\* The windows given to sma: from 1 to one more than the longest series.
SmaWindows == 1..(MaxBars + 1)

\* A call of sma with any series and any window.
CallSma ==
    /\ sma_out = None
    /\ \E s \in SmaSeries : \E w \in SmaWindows :
          /\ sma_series' = Some(s)
          /\ sma_window' = w
          /\ sma_out' = Some(Sma(s, w))
    /\ UNCHANGED <<simVars, evalVars, parseVars>>

NextSma == CallSma

SpecSma == Init /\ [][NextSma]_vars

----------------------------------------------------------------------------
\* generate_signals on rules with unknown names, lookback names and
\* logical nodes of several operands

\* The most operands of one AND or OR node.
MaxOperands == 3

\* A column that is none of the five price fields.
ExtraColumn == "adj_close"

\* A frame as the tests build theirs, with or without a sixth column.
TermFrame(c, v, extra) ==
    [index |-> DateRange(Len(c)),
     columns |-> IF extra THEN RequiredCols \cup {ExtraColumn}
                 ELSE RequiredCols,
     open |-> c, high |-> [k \in 1..Len(c) |-> c[k] + 1],
     low |-> [k \in 1..Len(c) |-> c[k] - 1], close |-> c, volume |-> v,
     adj_close |-> IF extra THEN [k \in 1..Len(c) |-> 2 * c[k]] ELSE <<>>]

\* The frames: the five columns with any closes and volumes, or a sixth
\* column as well with any closes and a volume of 1 at every bar.
TermFrames ==
    UNION { { TermFrame(c, v, FALSE) :
                c \in [1..n -> CloseValues], v \in [1..n -> VolumeValues] }
            \cup { TermFrame(c, [k \in 1..n |-> 1], TRUE) :
                      c \in [1..n -> CloseValues] }
            : n \in 0..MaxBars }

\* The field names with a lookback suffix.
LookbackNames ==
    {"open_yesterday", "high_yesterday", "low_yesterday", "close_yesterday",
     "volume_yesterday", "open_last_week", "high_last_week", "low_last_week",
     "close_last_week", "volume_last_week"}

\* "field op value"
FieldComparison(field, op, value) ==
    [type |-> "comparison", left |-> FieldNode(field), op |-> op,
     right |-> NumberNode(value)]

\* Rules that name something other than the five fields: as a field term or
\* as the field of a function call, a column the frame may have or a name it
\* never has.
UnknownNameRules ==
    { [type |-> "comparison", left |-> FieldNode("close"), op |-> ">",
       right |-> t] :
        t \in {FieldNode(ExtraColumn), FieldNode("price"),
               FuncNode("SMA", ExtraColumn, 2),
               FuncNode("rsi", ExtraColumn, RsiPeriod),
               FuncNode("sMa", "price", 2)} }

\* Rules over a field with a lookback suffix.
LookbackRules ==
    { FieldComparison(name, op, 2) : name \in LookbackNames, op \in {">", "<"} }

\* The operands of the logical rules.
LeafNodes ==
    {FieldComparison("close", ">", 2), FieldComparison("volume", ">", 2),
     FieldComparison("high", ">=", 3)}

OperandLists == UNION { [1..n -> LeafNodes] : n \in 2..MaxOperands }

LogicalNode(type, operands) == [type |-> type, operands |-> operands]

RECURSIVE Chain(_, _, _)
\* The first k operands as a left-folded chain of two-operand nodes, as
\* "(a AND b) AND c" parses.
Chain(type, operands, k) ==
    IF k = 1 THEN operands[1]
    ELSE LogicalNode(type, <<Chain(type, operands, k - 1), operands[k]>>)

\* The rule sets: one entry rule with an unknown or a lookback name, or the
\* same operands as one node (entry) and as a chain (exit).
TermASTs ==
    { [entry |-> e] : e \in UnknownNameRules \cup LookbackRules }
    \cup { [entry |-> LogicalNode(t, ops), exit |-> Chain(t, ops, Len(ops))] :
             t \in {"and", "or"}, ops \in OperandLists }

\* A call of generate_signals with any of these frames and rule sets.
GenerateTerms ==
    /\ ev_out = None
    /\ \E d \in TermFrames : \E a \in TermASTs :
          /\ ev_df' = d
          /\ ast' = a
          /\ ev_out' = Some(GenerateSignals(d, a))
    /\ UNCHANGED <<simVars, indVars, parseVars>>

NextTerms == GenerateTerms

SpecTerms == Init /\ [][NextTerms]_vars

----------------------------------------------------------------------------
\* The rule language: ASTTransformer and DSLParser.parse

\* The tokens of a rule text: a kind, the text of a field or an operator,
\* the value of a numeric literal.
Kw(kind) == [kind |-> kind, text |-> kind, num |-> 0]

FieldTok(name) == [kind |-> "FIELD", text |-> name, num |-> 0]

OpTok(op) == [kind |-> "OP", text |-> op, num |-> 0]

NumTok(n) == [kind |-> "NUMBER", text |-> "", num |-> n]

\* Mutant: the suffix is dropped and the literal stored as written.
NumberValueUnscaled(number, suffix) == NumberNode(number)

\* number_value: float(number_str), times 1000 for K, 1000000 for M.
NumberValue(number, suffix) ==
    NumberNode(IF suffix = "K" THEN number * 1000
               ELSE IF suffix = "M" THEN number * 1000000
               ELSE number)

\* sma_call / rsi_call: None when it raises for fewer than two arguments.
FuncCall(name, args) ==
    IF Len(args) < 2 THEN None
    ELSE Some(FuncNode(Lower(name), args[1], args[2]))

\* comparison
Comparison(left, op, right) ==
    [type |-> "comparison", left |-> left, op |-> op, right |-> right]

\* cross_comparison, with crosses_above / crosses_below
CrossComparison(left, kind, right) ==
    [type |-> "cross", left |-> left,
     cross_type |-> IF kind = "CROSSES_ABOVE" THEN "above" ELSE "below",
     right |-> right]

\* and_expr / or_expr: one operand passes through, more become one node.
LogicalExpr(type, args) ==
    IF Len(args) = 1 THEN args[1] ELSE LogicalNode(type, args)

\* The results of the grammar's rules: the node and the next position, or
\* a failure.
Fail(p) == [ok |-> FALSE, node |-> <<>>, pos |-> p]

Done(node, p) == [ok |-> TRUE, node |-> node, pos |-> p]

KindAt(ts, p) == IF p >= 1 /\ p <= Len(ts) THEN ts[p].kind ELSE "$END"

\* number_value: NUMBER (K | M)?
ParseNumber(ts, p) ==
    IF KindAt(ts, p) # "NUMBER" THEN Fail(p)
    ELSE IF KindAt(ts, p + 1) \in {"K", "M"}
    THEN Done(NumberValue(ts[p].num, KindAt(ts, p + 1)), p + 2)
    ELSE Done(NumberValue(ts[p].num, ""), p + 1)

\* sma_call / rsi_call: NAME "(" field "," NUMBER ")"
ParseFunc(ts, p) ==
    IF /\ KindAt(ts, p) \in {"SMA", "RSI"}
       /\ KindAt(ts, p + 1) = "("
       /\ KindAt(ts, p + 2) = "FIELD"
       /\ KindAt(ts, p + 3) = ","
       /\ KindAt(ts, p + 4) = "NUMBER"
       /\ KindAt(ts, p + 5) = ")"
    THEN LET call == FuncCall(ts[p].kind, <<ts[p + 2].text, ts[p + 4].num>>)
         IN  IF call = None THEN Fail(p) ELSE Done(call[1], p + 6)
    ELSE Fail(p)

\* term: field | function call | number
ParseTerm(ts, p) ==
    IF KindAt(ts, p) = "FIELD" THEN Done(FieldNode(ts[p].text), p + 1)
    ELSE IF KindAt(ts, p) \in {"SMA", "RSI"} THEN ParseFunc(ts, p)
    ELSE ParseNumber(ts, p)

RECURSIVE ParseOperands(_, _, _)

\* In the rules below an intermediate result is bound by "r \in {...}", so
\* that it is computed once.

\* or_expr: and_expr ("OR" and_expr)*, and_expr: comparison ("AND"
\* comparison)*, for type "or" and "and".
ParseLogical(ts, p, type) ==
    CHOOSE x \in { IF r.ok THEN Done(LogicalExpr(type, r.node), r.pos)
                   ELSE Fail(p) : r \in {ParseOperands(ts, p, type)} } : TRUE

\* The right-hand term of a comparison or cross whose left-hand term l was
\* parsed.
ParseRight(ts, p, l) ==
    CHOOSE x \in
        { IF ~r.ok THEN Fail(p)
          ELSE IF ts[l.pos].kind = "OP"
          THEN Done(Comparison(l.node, ts[l.pos].text, r.node), r.pos)
          ELSE Done(CrossComparison(l.node, ts[l.pos].kind, r.node), r.pos)
          : r \in {ParseTerm(ts, l.pos + 1)} } : TRUE

\* comparison: "(" or_expr ")" | term OP term | term crosses term
ParseComparison(ts, p) ==
    IF KindAt(ts, p) = "("
    THEN CHOOSE x \in
             { IF r.ok /\ KindAt(ts, r.pos) = ")"
               THEN Done(r.node, r.pos + 1)
               ELSE Fail(p) : r \in {ParseLogical(ts, p + 1, "or")} } : TRUE
    ELSE CHOOSE x \in
             { IF ~l.ok \/ KindAt(ts, l.pos) \notin
                             {"OP", "CROSSES_ABOVE", "CROSSES_BELOW"}
               THEN Fail(p)
               ELSE ParseRight(ts, p, l) : l \in {ParseTerm(ts, p)} } : TRUE

\* The operands after the first one, which was parsed.
ParseRest(ts, p, type, first) ==
    CHOOSE x \in
        { IF rest.ok THEN Done(<<first.node>> \o rest.node, rest.pos)
          ELSE Fail(p)
          : rest \in {ParseOperands(ts, first.pos + 1, type)} } : TRUE

\* The operands of one and_expr or or_expr from position p on.
ParseOperands(ts, p, type) ==
    CHOOSE x \in
        { IF ~first.ok THEN Fail(p)
          ELSE IF KindAt(ts, first.pos) = (IF type = "or" THEN "OR" ELSE "AND")
          THEN ParseRest(ts, p, type, first)
          ELSE Done(<<first.node>>, first.pos)
          : first \in {IF type = "or" THEN ParseLogical(ts, p, "and")
                       ELSE ParseComparison(ts, p)} } : TRUE

\* The EXIT section after the entry items, if the text has one at p.
ParseExit(ts, p, entry_items) ==
    IF KindAt(ts, p) # "EXIT:"
    THEN [ok |-> p = Len(ts) + 1, items |-> entry_items]
    ELSE CHOOSE x \in
             { IF ~exit.ok THEN [ok |-> FALSE, items |-> entry_items]
               ELSE [ok |-> exit.pos = Len(ts) + 1,
                     items |-> entry_items \o << <<"exit", exit.node>> >>]
               : exit \in {ParseLogical(ts, p + 1, "or")} } : TRUE

\* start: entry? exit? with entry: "ENTRY:" or_expr and exit: "EXIT:"
\* or_expr; items holds the ("entry", node) / ("exit", node) pairs that
\* were completed, ok is false when the text does not match.
ParseStart(ts) ==
    IF KindAt(ts, 1) # "ENTRY:" THEN ParseExit(ts, 1, <<>>)
    ELSE CHOOSE x \in
             { IF ~entry.ok THEN [ok |-> FALSE, items |-> <<>>]
               ELSE ParseExit(ts, entry.pos, << <<"entry", entry.node>> >>)
               : entry \in {ParseLogical(ts, 2, "or")} } : TRUE

\* The dictionary parse builds from the items: only the items named
\* "entry" or "exit" are stored, and a later item of a name replaces an
\* earlier one.
AstOf(items) ==
    [name \in { items[k][1] : k \in 1..Len(items) } \cap {"entry", "exit"} |->
        LET k == CHOOSE j \in 1..Len(items) :
                    /\ items[j][1] = name
                    /\ \A later \in (j + 1)..Len(items) :
                          items[later][1] # name
        IN  items[k][2]]

\* Mutant: the sections completed before the failure are returned.
ParseBestEffort(ts) == Ok(AstOf(ParseStart(ts).items))

\* DSLParser.parse: the dictionary of the sections, or ValueError for any
\* exception of the parser or the transformer.
Parse(ts) ==
    CHOOSE x \in { IF result.ok THEN Ok(AstOf(result.items))
                   ELSE Err("DSL parsing error")
                   : result \in {ParseStart(ts)} } : TRUE

----------------------------------------------------------------------------
\* The inputs of DSLParser.parse and the frames its rules are evaluated on

\* The most bars of a frame a parsed rule set is evaluated on.
ParseBars == 1

\* The numeric literals of the rule texts.
LiteralValues == {1, 2}

\* The volumes of the frames: below and above the literals with K and M.
ParseVolumes == {1, 1500, 1500000}

NumberTexts ==
    { <<NumTok(n)>> \o s :
        n \in LiteralValues, s \in {<<>>, <<Kw("K")>>, <<Kw("M")>>} }

FuncText(name, field, period) ==
    <<Kw(name), Kw("("), FieldTok(field), Kw(","), NumTok(period), Kw(")")>>

\* "field op term" and "field crosses above term"
ComparisonTexts ==
    { <<FieldTok(f), m>> \o r :
        f \in {"close", "volume"},
        m \in {OpTok(">"), OpTok("<="), Kw("CROSSES_ABOVE")},
        r \in NumberTexts \cup {<<FieldTok("close")>>,
                                FuncText("SMA", "close", 2),
                                FuncText("RSI", "close", RsiPeriod)} }

\* The three rules the longer texts are built from.
RuleA == <<FieldTok("close"), OpTok(">"), NumTok(1)>>

RuleB == <<FieldTok("volume"), OpTok(">"), NumTok(1), Kw("K")>>

RuleC ==
    <<FieldTok("close"), Kw("CROSSES_BELOW")>> \o FuncText("SMA", "close", 2)

LogicalTexts ==
    {RuleA \o <<Kw("AND")>> \o RuleB,
     RuleA \o <<Kw("OR")>> \o RuleB,
     RuleA \o <<Kw("AND")>> \o RuleB \o <<Kw("AND")>> \o RuleC,
     RuleA \o <<Kw("OR")>> \o RuleB \o <<Kw("AND")>> \o RuleC,
     <<Kw("(")>> \o RuleA \o <<Kw("OR")>> \o RuleB \o <<Kw(")"), Kw("AND")>>
        \o RuleC,
     RuleA \o <<Kw("AND"), Kw("(")>> \o RuleB \o <<Kw("OR")>> \o RuleC
        \o <<Kw(")")>>}

\* Texts of the rule language: no section, an ENTRY section, an EXIT
\* section, or both.
ValidTexts ==
    {<<>>}
    \cup { <<Kw("ENTRY:")>> \o e : e \in ComparisonTexts \cup LogicalTexts }
    \cup { <<Kw("EXIT:")>> \o e : e \in {RuleA, RuleC} \cup LogicalTexts }
    \cup { <<Kw("ENTRY:")>> \o e \o <<Kw("EXIT:")>> \o x :
             e \in {RuleA, RuleB}, x \in {RuleB, RuleC} \cup LogicalTexts }

\* text without its k-th token
Delete(text, k) ==
    [j \in 1..(Len(text) - 1) |-> IF j < k THEN text[j] ELSE text[j + 1]]

\* The texts whose damaged versions are given to the parser.
BaseTexts ==
    { <<Kw("ENTRY:")>> \o e : e \in {RuleA, RuleB, RuleC} \cup LogicalTexts }
    \cup { <<Kw("ENTRY:")>> \o e \o <<Kw("EXIT:")>> \o x :
             e \in {RuleA}, x \in {RuleA, RuleB, RuleC} \cup LogicalTexts }

\* A text with one token missing, or with "INVALID:" for its first header.
DamagedTexts ==
    UNION { { Delete(t, k) : k \in 1..Len(t) } : t \in BaseTexts }
    \cup { [t EXCEPT ![1] = Kw("INVALID:")] : t \in BaseTexts }

DslTexts == ValidTexts \cup DamagedTexts

\* The frames a parsed rule set is evaluated on.
ParseFrames ==
    UNION { { EvalFrame(RequiredCols, c, v) :
                c \in [1..n -> CloseValues], v \in [1..n -> ParseVolumes] }
            : n \in 0..ParseBars }

\* A call of DSLParser.parse with any of the texts.
ParseText ==
    /\ parse_out = None
    /\ \E t \in DslTexts :
          /\ dsl_text' = Some(t)
          /\ parse_out' = Some(Parse(t))
    /\ UNCHANGED <<simVars, evalVars, indVars>>

\* generate_signals with the AST that parse returned, as the callers do.
GenerateParsed ==
    /\ parse_out # None
    /\ parse_out[1].err = ""
    /\ ev_out = None
    /\ \E d \in ParseFrames :
          /\ ev_df' = d
          /\ ast' = parse_out[1].val
          /\ ev_out' = Some(GenerateSignals(d, parse_out[1].val))
    /\ UNCHANGED <<simVars, indVars, parseVars>>

NextParse ==
    \/ ParseText
    \/ GenerateParsed

SpecParse == Init /\ [][NextParse]_vars

----------------------------------------------------------------------------
\* generate_signals on rising price series under a cross-above-SMA rule

\* Longest rising series that is explored: long enough for a level stretch
\* after the first rise to fill the SmaPeriod-bar window and be left again.
CrossBars == 23

\* The amounts a rising series gains per bar.
RampSteps == {1, 2}

\* The windows of the SMA rules.
CrossWindows == {2, SmaPeriod}

\* n closes from 1 that gain step at every bar but the bars a..b, where they
\* stay level.
Ramp(n, a, b, step) ==
    [k \in 1..n |->
        1 + step * Cardinality({ j \in 2..k : j < a \/ j > b })]

\* Frames of up to CrossBars bars whose closes rise at every bar, or at every
\* bar but one level stretch, with a constant volume.
RampFrames ==
    UNION { { EvalFrame(RequiredCols, Ramp(n, a, b, step),
                        [k \in 1..n |-> 1]) :
                a \in 1..(n + 1), b \in 0..n, step \in RampSteps }
            : n \in 0..CrossBars }

\* ENTRY: close crosses above SMA(close, w)
CrossAboveSmaRules ==
    { [entry |-> [type |-> "cross", left |-> FieldNode("close"),
                  cross_type |-> "above",
                  right |-> FuncNode("SMA", "close", w)]] :
        w \in CrossWindows }

\* A call of generate_signals with a rising series and a cross-above-SMA rule.
GenerateCross ==
    /\ ev_out = None
    /\ \E d \in RampFrames : \E a \in CrossAboveSmaRules :
          /\ ev_df' = d
          /\ ast' = a
          /\ ev_out' = Some(GenerateSignals(d, a))
    /\ UNCHANGED <<simVars, indVars, parseVars>>

NextCross == GenerateCross

SpecCross == Init /\ [][NextCross]_vars

----------------------------------------------------------------------------
\* Properties of Backtester.run

Last(seq) == seq[Len(seq)]

InLoop == pc \in {"exit_check", "enter_check", "update_equity"}

\* The bars (0-based) whose entry signal is set.
EntryBars == { k \in 0..(NBars(df) - 1) : signals.entry[k + 1] }

\* The first bar whose entry signal is set (EntryBars # {}).
FirstEntryBar == CHOOSE k \in EntryBars : \A j \in EntryBars : k <= j

\* Both signals of the bar before bar i are set.
BothPrevSignals == i >= 1 /\ signals.entry[i] /\ signals.exit[i]

\* C1: when the entry signal is first set at bar k and bar k + 1 exists, the
\* first trade of the returned ledger was entered on bar k + 1's date at
\* bar k + 1's open.
C1_NextBarExecution ==
    (pc = "done" /\ EntryBars # {} /\ FirstEntryBar + 1 < NBars(df))
    => /\ Len(results[1].trades) >= 1
       /\ results[1].trades[1].entry_date = df.index[FirstEntryBar + 2]
       /\ results[1].trades[1].entry_price = df.open[FirstEntryBar + 2]
       /\ results[1].trades[1].entry_date # df.index[FirstEntryBar + 1]

\* A finished run whose first entry signal is at a bar k >= 1 whose open and
\* close both differ from bar k + 1's open.
C1_Witness ==
    /\ pc = "done"
    /\ EntryBars # {}
    /\ FirstEntryBar >= 1
    /\ FirstEntryBar + 1 < NBars(df)
    /\ df.open[FirstEntryBar + 2] # df.open[FirstEntryBar + 1]
    /\ df.open[FirstEntryBar + 2] # df.close[FirstEntryBar + 1]
    /\ results[1].trades # <<>>

\* The trade t closed on date d at price p: exit fields, pnl and return_pct.
IsClosed(t, open_trade, d, p) ==
    /\ t.entry_date = open_trade.entry_date
    /\ t.entry_price = open_trade.entry_price
    /\ t.exit_date = Some(d)
    /\ t.exit_price = Some(p)
    /\ t.pnl = Some(p - open_trade.entry_price)
    /\ t.return_pct # None
    /\ t.return_pct[1][1] * open_trade.entry_price
         = (p - open_trade.entry_price) * 100 * t.return_pct[1][2]

\* new = old * (1 + return_pct / 100), return_pct a fraction.
IsCompounded(new, old, return_pct) ==
    new[1] * old[2] * 100 * return_pct[2]
        = old[1] * (100 * return_pct[2] + return_pct[1]) * new[2]

\* C2: a step that processes bar i >= 1 while Long with exit_signal[i-1] set
\* closes the open trade at bar i's open and date, with pnl = exit_price -
\* entry_price and return_pct = pnl / entry_price * 100, multiplies capital by
\* 1 + return_pct / 100, appends the trade to the ledger and leaves the
\* simulator Flat.
C2_ExitTransition ==
    [][(pc = "exit_check" /\ current_position # None /\ i >= 1
        /\ signals.exit[i])
       => /\ Len(trades') = Len(trades) + 1
          /\ SubSeq(trades', 1, Len(trades)) = trades
          /\ IsClosed(Last(trades'), current_position[1],
                      df.index[i + 1], df.open[i + 1])
          /\ IsCompounded(capital', capital, Last(trades').return_pct[1])
          /\ current_position' = None]_vars

\* A signalled exit has just been executed and has changed the capital.
C2_Witness ==
    /\ pc = "enter_check"
    /\ i >= 1
    /\ signals.exit[i]
    /\ trades # <<>>
    /\ Last(trades).exit_date = Some(df.index[i + 1])
    /\ Last(trades).pnl # Some(0)
    /\ capital # RatInt(InitialCapital)
    /\ current_position = None

\* C3: a position still open after the last bar is closed at the last bar's
\* close and date, capital compounding as for a signalled exit, before the
\* metrics are computed; the ledger's last trade then carries the last date.
C3_ForceClose ==
    [][(pc = "force_close" /\ current_position # None)
       => /\ Len(trades') = Len(trades) + 1
          /\ SubSeq(trades', 1, Len(trades)) = trades
          /\ IsClosed(Last(trades'), current_position[1],
                      df.index[NBars(df)], df.close[NBars(df)])
          /\ IsCompounded(capital', capital, Last(trades').return_pct[1])
          /\ current_position' = None
          /\ Last(trades').exit_date # None
          /\ results' = None
          /\ pc' = "metrics"]_vars

\* A force-close has happened on a last bar whose close differs from its open.
C3_Witness ==
    /\ pc = "metrics"
    /\ trades # <<>>
    /\ df.close[NBars(df)] # df.open[NBars(df)]
    /\ Last(trades).exit_price = Some(df.close[NBars(df)])
    /\ Last(trades).exit_date = Some(df.index[NBars(df)])
    /\ Last(trades).entry_price # df.close[NBars(df)]

\* C4: at a bar i reached Long with exit_signal[i-1] and entry_signal[i-1]
\* both set, the close comes first, at open[i], and the open check that
\* follows it in the same bar opens a new trade at open[i] on date[i].
C4_CloseBeforeOpen ==
    [][/\ (pc = "exit_check" /\ current_position # None /\ BothPrevSignals)
          => /\ pc' = "enter_check"
             /\ current_position' = None
             /\ trades' # <<>>
             /\ Last(trades').entry_date = current_position[1].entry_date
             /\ Last(trades').exit_price = Some(df.open[i + 1])
             /\ Last(trades').exit_date = Some(df.index[i + 1])
       /\ (pc = "enter_check" /\ BothPrevSignals)
          => /\ current_position' # None
             /\ current_position'[1].entry_price = df.open[i + 1]
             /\ current_position'[1].entry_date = df.index[i + 1]
             /\ current_position'[1].exit_date = None
             /\ trades' = trades]_vars

\* A bar has closed one trade and opened the next.
C4_Witness ==
    /\ pc = "update_equity"
    /\ BothPrevSignals
    /\ trades # <<>>
    /\ Last(trades).exit_date = Some(df.index[i + 1])
    /\ current_position # None
    /\ current_position[1].entry_date = df.index[i + 1]

\* C8: the equity curve starts with the initial capital and gains exactly one
\* value per processed bar, so a finished run returns len(df) + 1 values.
C8_EquityCurveLength ==
    /\ pc # "idle" => (equity_curve # <<>>
                       /\ equity_curve[1] = RatInt(InitialCapital))
    /\ InLoop => Len(equity_curve) = i + 1
    /\ pc \in {"force_close", "metrics", "done"}
         => Len(equity_curve) = NBars(df) + 1
    /\ pc = "done" => /\ Len(results[1].equity_curve) = NBars(df) + 1
                      /\ results[1].equity_curve[1] = RatInt(InitialCapital)

\* A finished run over at least two bars with a bar spent Flat and a bar
\* spent Long.
C8_Witness ==
    /\ pc = "done"
    /\ NBars(df) >= 2
    /\ results[1].num_trades >= 1
    /\ results[1].trades[1].entry_date > df.index[2]

\* Every trade of the ledger is closed.
LedgerClosed == \A k \in 1..Len(trades) : trades[k].exit_date # None

\* C9: the simulator is Flat (no open trade) or Long (one open trade, not in
\* the ledger); it starts Flat and is Flat when run has returned; an entry
\* signal seen while Long leaves the open trade and the ledger as they are,
\* and an exit signal seen while Flat changes nothing.
C9_SinglePosition ==
    /\ [](/\ Len(current_position) <= 1
          /\ current_position # None
               => /\ current_position[1].exit_date = None
                  /\ InLoop \/ pc = "force_close"
          /\ LedgerClosed
          /\ pc \in {"idle", "raised", "metrics", "done"}
               => current_position = None
          /\ (pc = "exit_check" /\ i = 0) => current_position = None)
    /\ [][/\ (pc = "enter_check" /\ current_position # None
              /\ PrevEntrySignal(signals, i))
             => (current_position' = current_position /\ trades' = trades
                 /\ capital' = capital)
          /\ (pc = "exit_check" /\ current_position = None
              /\ PrevExitSignal(signals, i))
             => (current_position' = None /\ trades' = trades
                 /\ capital' = capital)]_vars

\* An entry signal was seen while Long, without an exit signal.
C9_Witness ==
    /\ pc = "update_equity"
    /\ i >= 1
    /\ signals.entry[i]
    /\ ~signals.exit[i]
    /\ current_position # None
    /\ current_position[1].entry_date < df.index[i + 1]

\* C10: no trade, closed or open, was entered on bar 0's date, and no trade
\* was exited on it; bar 0 leaves the simulator Flat with an empty ledger.
C10_NoEntryAtBarZero ==
    (pc \notin {"idle", "raised"} /\ NBars(df) >= 1)
    => /\ \A k \in 1..Len(trades) :
              /\ trades[k].entry_date # df.index[1]
              /\ trades[k].exit_date # Some(df.index[1])
       /\ current_position # None
            => current_position[1].entry_date # df.index[1]
       /\ i = 0 => (trades = <<>> /\ current_position = None)

\* A finished run with trades whose bar 0 had both signals set.
C10_Witness ==
    /\ pc = "done"
    /\ NBars(df) >= 2
    /\ signals.entry[1]
    /\ signals.exit[1]
    /\ trades # <<>>

\* C11: the step that ends bar i appends one value v to the equity curve:
\* while Long, v = capital * close[i] / entry_price (v * entry_price =
\* capital * close[i]); while Flat, v = capital.
C11_MarkToMarket ==
    [][pc = "update_equity"
       => \E v \in {equity_curve'[Len(equity_curve')]} :
            /\ equity_curve' = Append(equity_curve, v)
            /\ IF current_position # None
               THEN v[1] * current_position[1].entry_price * capital[2]
                        = capital[1] * df.close[i + 1] * v[2]
               ELSE v = capital]_vars

\* A bar has just been marked while Long at a close different from the entry
\* price, with a capital that an earlier trade has changed.
C11_Witness ==
    /\ pc \in {"exit_check", "force_close"}
    /\ i >= 1
    /\ current_position # None
    /\ trades # <<>>
    /\ capital # RatInt(InitialCapital)
    /\ df.close[i] # current_position[1].entry_price
    /\ equity_curve[Len(equity_curve)] # capital

\* C12: a frame that lacks one of the five required columns makes
\* generate_signals fail with the missing-columns error and return no
\* signals, and makes run fail and return no metrics, whatever the rule set
\* reads.
C12_MissingFieldRejected ==
    (ev_out # None /\ ~(RequiredCols \subseteq ev_df.columns))
    => /\ ev_out[1].err = "Missing required columns"
       /\ ev_out[1].val = <<>>
       /\ pc # "idle" => /\ df = ev_df
                         /\ pc = "raised"
                         /\ results = None
                         /\ trades = <<>>

\* Both calls have failed on a frame of at least two bars without the volume
\* column, for a rule that reads only close and would have fired.
C12_Witness ==
    /\ pc = "raised"
    /\ ev_out # None
    /\ ev_out[1].err # ""
    /\ df = ev_df
    /\ df.columns = RequiredCols \ {"volume"}
    /\ NBars(df) >= 2
    /\ DOMAIN ast = {"entry"}
    /\ \E k \in 1..NBars(df) : df.close[k] > 2

\* The call of run in progress or finished was given signals whose index is
\* not the price frame's.
Misaligned == pc # "idle" /\ signals_in.index # df.index

\* C13 as stated: a call of run with signals whose index (length or dates) is
\* not the price frame's fails and returns nothing.
C13_MisalignedRejected ==
    Misaligned => (pc = "raised" /\ results = None)

\* The rows of signals_in dated as bar k of df.
RowsDated(k) ==
    { j \in 1..Len(signals_in.index) : signals_in.index[j] = df.index[k] }

\* C13, amended: a call of run with both signal columns, all price columns and
\* a signal index that is not the price frame's is not rejected for the
\* misalignment. When no timestamp occurs twice in the signal index the call
\* does not fail: it runs on signals over the price frame's index that carry,
\* for each bar, the row the given signals have for that date and False,
\* False where they have none, and it returns a result. When a timestamp
\* occurs twice the reindexing raises: no bar is processed and nothing is
\* returned.
C13_MisalignedRepaired ==
    (Misaligned /\ RequiredCols \subseteq df.columns
                /\ SignalCols \subseteq signals_in.columns)
    => IF \E j \in 1..Len(signals_in.index) :
             \E k \in (j + 1)..Len(signals_in.index) :
                signals_in.index[j] = signals_in.index[k]
       THEN /\ pc = "raised"
            /\ i = 0
            /\ trades = <<>>
            /\ current_position = None
            /\ equity_curve = <<RatInt(InitialCapital)>>
            /\ results = None
       ELSE /\ pc # "raised"
            /\ signals.index = df.index
            /\ Len(signals.entry) = NBars(df)
            /\ Len(signals.exit) = NBars(df)
            /\ \A k \in 1..NBars(df) :
                  /\ \A j \in RowsDated(k) :
                        /\ signals.entry[k] = signals_in.entry[j]
                        /\ signals.exit[k] = signals_in.exit[j]
                  /\ RowsDated(k) = {}
                     => (~signals.entry[k] /\ ~signals.exit[k])
            /\ pc = "done" => results # None

\* A finished run that was given signals of the price frame's length dated one
\* day later, one of them an entry signal that opened a trade.
C13_Witness ==
    /\ pc = "done"
    /\ Misaligned
    /\ RequiredCols \subseteq df.columns
    /\ SignalCols \subseteq signals_in.columns
    /\ Len(signals_in.index) = NBars(df)
    /\ \E k \in 1..NBars(df) : RowsDated(k) = {}
    /\ \E k \in 2..NBars(df) :
          /\ signals.entry[k]
          /\ ~signals_in.entry[k]
    /\ results # None
    /\ results[1].trades # <<>>

\* C14: a call of run with all price columns and signals that lack the entry
\* or the exit column fails before any bar is processed: no bar's equity, no
\* position, no trade, no result.
C14_MissingSignalColumn ==
    (pc # "idle" /\ ("entry" \notin signals_in.columns
                      \/ "exit" \notin signals_in.columns))
    => /\ pc = "raised"
       /\ i = 0
       /\ equity_curve = <<RatInt(InitialCapital)>>
       /\ current_position = None
       /\ trades = <<>>
       /\ results = None

\* A failed call with a complete price frame of at least two bars and signals
\* that have an entry column, one of them set, and no exit column.
C14_Witness ==
    /\ pc = "raised"
    /\ MissingCols(df) = {}
    /\ NBars(df) >= 2
    /\ signals_in.columns = {"entry"}
    /\ signals_in.entry[1]

\* C15: a second call of run on the same instance with the same price frame
\* and signals returns what the first call returned: the same trades, equity
\* curve and metrics.
C15_SecondRunIdentical ==
    (pc = "done" /\ prev_results # None) => results = prev_results

\* A second run has finished after a first one that closed a trade and changed
\* the capital.
C15_Witness ==
    /\ pc = "done"
    /\ prev_results # None
    /\ prev_results[1].trades # <<>>
    /\ prev_results[1].final_capital # RatInt(InitialCapital)
    /\ Len(results[1].equity_curve) >= 3

RECURSIVE LongAfterBar(_)
\* Whether a position is open after bar k (0-based) of the run over the
\* aligned signals: bar 0 acts on no signal, bar k on the signals of bar k - 1,
\* the exit before the entry.
LongAfterBar(k) ==
    IF k = 0 THEN FALSE
    ELSE IF LongAfterBar(k - 1) /\ ~signals.exit[k] THEN TRUE
    ELSE signals.entry[k]

\* The bars (0-based) at which the run opens a trade.
OpenedBars ==
    { k \in 1..(NBars(df) - 1) :
        (~LongAfterBar(k - 1) \/ signals.exit[k]) /\ signals.entry[k] }

\* C16: when run has returned, every trade of the returned ledger has its
\* entry date and price and a non-null exit date, exit price, pnl and
\* return_pct; num_trades is the length of the ledger; and each trade the run
\* opened (one per bar of OpenedBars, at that bar's date and open) is in the
\* ledger exactly once, the ledger holding nothing else.
C16_LedgerComplete ==
    pc = "done"
    => /\ results[1].num_trades = Len(results[1].trades)
       /\ \A j \in 1..Len(results[1].trades) :
             /\ \E k \in OpenedBars :
                   /\ results[1].trades[j].entry_date = df.index[k + 1]
                   /\ results[1].trades[j].entry_price = df.open[k + 1]
             /\ results[1].trades[j].exit_date # None
             /\ results[1].trades[j].exit_price # None
             /\ results[1].trades[j].pnl # None
             /\ results[1].trades[j].return_pct # None
       /\ \A k \in OpenedBars :
             Cardinality({ j \in 1..Len(results[1].trades) :
                             results[1].trades[j].entry_date = df.index[k + 1] })
                 = 1
       /\ Len(results[1].trades) = Cardinality(OpenedBars)

\* A finished run that opened two trades, the first closed by an exit signal
\* and the second by the force-close.
C16_Witness ==
    /\ pc = "done"
    /\ Cardinality(OpenedBars) = 2
    /\ Len(results[1].trades) = 2
    /\ results[1].trades[2].exit_date = Some(Last(df.index))
    /\ ~signals.exit[NBars(df)]

\* The closed trades of the returned ledger with pnl > 0.
Wins == { j \in 1..Len(results[1].trades) : results[1].trades[j].pnl[1] > 0 }

\* C17: the returned win_rate is the number of trades with pnl > 0 over the
\* number of trades (a trade with pnl = 0 is no win), 0 without trades, and
\* lies in [0, 1].
C17_WinRate ==
    pc = "done"
    => /\ IF results[1].trades = <<>>
          THEN results[1].win_rate = RatInt(0)
          ELSE results[1].win_rate[1] * Len(results[1].trades)
                   = Cardinality(Wins) * results[1].win_rate[2]
       /\ results[1].win_rate[2] > 0
       /\ results[1].win_rate[1] >= 0
       /\ results[1].win_rate[1] <= results[1].win_rate[2]

\* A finished run with two trades, one that broke even and one that won: the
\* win rate is 1/2.
C17_Witness ==
    /\ pc = "done"
    /\ Len(results[1].trades) = 2
    /\ \E j \in 1..2 : results[1].trades[j].pnl = Some(0)
    /\ Cardinality(Wins) = 1
    /\ results[1].win_rate = <<1, 2>>

\* The largest of the first k values of the returned equity curve.
Peak(k) ==
    CHOOSE m \in { results[1].equity_curve[j] : j \in 1..k } :
        \A j \in 1..k : RatLe(results[1].equity_curve[j], m)

\* (equity[k] - running_max[k]) / running_max[k] * 100
DrawdownAt(k) ==
    RatMul(RatDiv(RatSub(results[1].equity_curve[k], Peak(k)), Peak(k)),
           RatInt(100))

\* C18: the returned max_drawdown is the least of the drawdowns of the whole
\* equity curve, is never positive, and is 0 exactly when no equity value is
\* below the running peak (as in every run without trades).
C18_MaxDrawdown ==
    pc = "done"
    => /\ \E k \in 1..Len(results[1].equity_curve) :
             results[1].max_drawdown = DrawdownAt(k)
       /\ \A k \in 1..Len(results[1].equity_curve) :
             RatLe(results[1].max_drawdown, DrawdownAt(k))
       /\ results[1].max_drawdown[1] <= 0
       /\ results[1].max_drawdown = RatInt(0)
            <=> \A k \in 1..Len(results[1].equity_curve) :
                   results[1].equity_curve[k] = Peak(k)
       /\ results[1].trades = <<>> => results[1].max_drawdown = RatInt(0)

\* A finished run whose equity rose above its first value and then fell: the
\* drawdown is negative and measured from the later peak.
C18_Witness ==
    /\ pc = "done"
    /\ results[1].max_drawdown[1] < 0
    /\ \E k \in 2..Len(results[1].equity_curve) :
          /\ RatLt(results[1].equity_curve[1], Peak(k))
          /\ RatLt(results[1].equity_curve[k], Peak(k))
          /\ results[1].max_drawdown = DrawdownAt(k)

\* C19: the returned total_return is (final_capital - initial_capital) /
\* initial_capital * 100, final_capital being the capital after the
\* force-close; a run without trades returns total_return 0, num_trades 0 and
\* the initial capital as final_capital.
C19_TotalReturn ==
    pc = "done"
    => /\ results[1].final_capital = capital
       /\ current_position = None
       /\ results[1].total_return[2] > 0
       /\ results[1].total_return[1] * InitialCapital * capital[2]
             = (capital[1] - InitialCapital * capital[2]) * 100
                 * results[1].total_return[2]
       /\ results[1].trades = <<>>
            => /\ results[1].total_return = RatInt(0)
               /\ results[1].num_trades = 0
               /\ results[1].final_capital = RatInt(InitialCapital)

\* A finished run that lost money on a trade closed by the force-close.
C19_Witness ==
    /\ pc = "done"
    /\ results[1].trades # <<>>
    /\ Last(results[1].trades).exit_date = Some(Last(df.index))
    /\ RatLt(results[1].final_capital, RatInt(InitialCapital))
    /\ results[1].total_return[1] < 0

\* The steps of one run, from its first bar to its metrics.
WithinRun == pc \notin {"idle", "done", "raised"}

\* The ledger is chronological and its trades do not overlap.
Chronological(ts) ==
    \A k \in 1..Len(ts) :
        /\ ts[k].exit_date # None
        /\ ts[k].entry_date <= ts[k].exit_date[1]
        /\ k < Len(ts) => ts[k].exit_date[1] <= ts[k + 1].entry_date

\* C27: at every step of a run and in the returned results the ledger is
\* chronological and non-overlapping (entry_date <= exit_date in every trade,
\* and a trade's exit_date <= the next trade's entry_date), and a step of a
\* run never changes or removes a trade that is already in the ledger: the
\* ledger before the step is a prefix of the ledger after it.
C27_LedgerOrdered ==
    /\ [](/\ Chronological(trades)
          /\ pc = "done" => /\ results[1].trades = trades
                            /\ Chronological(results[1].trades))
    /\ [][WithinRun
            => /\ Len(trades') >= Len(trades)
               /\ \A k \in 1..Len(trades) : trades'[k] = trades[k]]_vars

\* A finished run with two trades, the second opened on the bar that closed
\* the first.
C27_Witness ==
    /\ pc = "done"
    /\ Len(results[1].trades) = 2
    /\ results[1].trades[1].exit_date = Some(results[1].trades[2].entry_date)
    /\ results[1].trades[1].entry_date < results[1].trades[2].entry_date
    /\ results[1].trades[1] # results[1].trades[2]

RECURSIVE CapitalProduct(_, _)
\* initial_capital times the product of exit_price / entry_price over the
\* first k trades of ts.
CapitalProduct(ts, k) ==
    IF k = 0
    THEN RatInt(InitialCapital)
    ELSE RatMul(CapitalProduct(ts, k - 1),
                Rat(ts[k].exit_price[1], ts[k].entry_price))

\* C28: the returned final_capital is initial_capital times the product of
\* exit_price / entry_price over the trades of the ledger, and a step of a
\* run changes the capital only when it closes the open trade (the ledger
\* grows by one and the position becomes empty): entering a position and a
\* bar without an exit leave the capital as it is.
C28_Compounding ==
    /\ [](pc = "done"
            => results[1].final_capital
                 = CapitalProduct(results[1].trades, Len(results[1].trades)))
    /\ [][WithinRun /\ capital' # capital
            => /\ current_position # None
               /\ current_position' = None
               /\ Len(trades') = Len(trades) + 1]_vars

\* A finished run of two trades, neither at break-even, whose capital is
\* not what the first trade alone gives.
C28_Witness ==
    /\ pc = "done"
    /\ Len(results[1].trades) = 2
    /\ results[1].trades[1].pnl[1] # 0
    /\ results[1].trades[2].pnl[1] # 0
    /\ CapitalProduct(results[1].trades, 1) # RatInt(InitialCapital)
    /\ results[1].final_capital # CapitalProduct(results[1].trades, 1)

\* No trade was closed on bar i so far: the simulator was Flat when bar i
\* began, if it is Flat now.
NoExitThisBar ==
    trades = <<>> \/ Last(trades).exit_date # Some(BarDate(df, i))

\* C29: when the simulator was Flat at the start of bar i and both signals
\* of bar i-1 are set, the entry check opens a trade at open[i] and the rest
\* of bar i leaves it open; a trade enters the ledger only from the exit
\* check of a later bar j (its entry_date is before date[j]) whose previous
\* bar set the exit signal, or from the final force-close.
C29_FlatBothSignals ==
    /\ [][(/\ pc = "enter_check"
           /\ current_position = None
           /\ NoExitThisBar
           /\ i >= 1
           /\ signals.entry[i]
           /\ signals.exit[i])
            => /\ current_position'
                    = Some(OpenTrade(BarDate(df, i), BarOpen(df, i)))
               /\ trades' = trades]_vars
    /\ [][(pc = "update_equity" /\ current_position # None)
            => /\ current_position' = current_position
               /\ trades' = trades]_vars
    /\ [][(WithinRun /\ trades' # trades)
            => /\ current_position # None
               /\ Len(trades') = Len(trades) + 1
               /\ Last(trades').entry_date = current_position[1].entry_date
               /\ \/ pc = "force_close"
                  \/ /\ pc = "exit_check"
                     /\ i >= 1
                     /\ signals.exit[i]
                     /\ current_position[1].entry_date < BarDate(df, i)]_vars

\* The bar after both signals were set has ended with the trade it opened,
\* the simulator having been Flat at its start.
C29_Witness ==
    /\ pc = "exit_check"
    /\ i >= 2
    /\ signals.entry[i - 1]
    /\ signals.exit[i - 1]
    /\ trades = <<>>
    /\ current_position # None
    /\ current_position[1].entry_date = df.index[i]
    /\ current_position[1].entry_price = df.open[i]

\* C30: a run that rejects its inputs processes no bar and leaves the
\* instance reset: capital = initial_capital, an empty ledger, equity_curve
\* = [initial_capital], no open position and no results, whatever an earlier
\* run on the instance had left. A run fails only for a missing price column,
\* a missing signal column, or signals to reindex whose index repeats a
\* timestamp, and a run that failed in the reindexing is left the same way.
C30_RejectedRunReset ==
    pc = "raised"
    => /\ \/ ~(RequiredCols \subseteq df.columns)
          \/ ~(SignalCols \subseteq signals_in.columns)
          \/ /\ signals_in.index # df.index
             /\ DuplicateLabels(signals_in.index)
       /\ i = 0
       /\ capital = RatInt(InitialCapital)
       /\ trades = <<>>
       /\ equity_curve = <<RatInt(InitialCapital)>>
       /\ current_position = None
       /\ results = None

\* A rejected run after a successful one that had traded and changed the
\* capital.
C30_Witness ==
    /\ pc = "raised"
    /\ prev_results # None
    /\ prev_results[1].trades # <<>>
    /\ prev_results[1].final_capital # RatInt(InitialCapital)
    /\ Len(prev_results[1].equity_curve) > 1

----------------------------------------------------------------------------
\* Properties of the evaluator

\* generate_signals has returned signals.
Evaluated == ev_out # None /\ ev_out[1].err = ""

\* The sections of the rule set that are Cross nodes.
CrossSections == { name \in DOMAIN ast : ast[name].type = "cross" }

\* The signal generate_signals returned for a section.
Signal(name) == ev_out[1].val[name]

\* The evaluated left and right series of a Cross section.
LeftOf(name) == EvaluateTerm(ev_df, ast[name].left).val

RightOf(name) == EvaluateTerm(ev_df, ast[name].right).val

\* C5: the signal of a Cross node, above or below, whatever its terms, is
\* false at position 0.
C5_CrossFalseAtStart ==
    (Evaluated /\ Len(ev_df.index) >= 1)
    => \A name \in CrossSections : ~Signal(name)[1]

\* a > b for two numbers, neither missing.
Above(a, b) == a[1] * b[2] > b[1] * a[2]

\* The first m bars of a frame.
PrefixFrame(d, m) ==
    [index |-> SubSeq(d.index, 1, m), columns |-> d.columns,
     open |-> SubSeq(d.open, 1, m), high |-> SubSeq(d.high, 1, m),
     low |-> SubSeq(d.low, 1, m), close |-> SubSeq(d.close, 1, m),
     volume |-> SubSeq(d.volume, 1, m)]

\* C6: at every position i >= 1 a CROSS_ABOVE signal is true exactly when
\* L[i] > R[i] and not L[i-1] > R[i-1], a CROSS_BELOW signal exactly when
\* L[i] < R[i] and not L[i-1] < R[i-1]; and the signal at a position is the
\* same when the bars after it are cut off.
C6_CrossSemantics ==
    Evaluated
    => \A name \in CrossSections :
         LET L == LeftOf(name)
             R == RightOf(name)
             n == Len(ev_df.index)
         IN  /\ Len(Signal(name)) = n
             /\ \A k \in 2..n :
                  Signal(name)[k]
                    = IF ast[name].cross_type = "above"
                      THEN Above(L[k], R[k]) /\ ~Above(L[k - 1], R[k - 1])
                      ELSE Above(R[k], L[k]) /\ ~Above(R[k - 1], L[k - 1])
             /\ \A m \in 1..n :
                  GenerateSignals(PrefixFrame(ev_df, m), ast).val[name]
                    = SubSeq(Signal(name), 1, m)

\* A cross signal over three bars or more that is true at a position after
\* the first and false at a position where the left series is above (below)
\* the right one as it already was the bar before.
C6_Witness ==
    /\ Evaluated
    /\ Len(ev_df.index) >= 3
    /\ \E name \in CrossSections :
         /\ ast[name].left = FieldNode("close")
         /\ ast[name].right = FieldNode("volume")
         /\ \E k \in 2..Len(ev_df.index) : Signal(name)[k]
         /\ \E k \in 2..Len(ev_df.index) :
              /\ ~Signal(name)[k]
              /\ ev_df.close[k] # ev_df.volume[k]
              /\ ev_df.close[k - 1] # ev_df.volume[k - 1]

\* The sum of c[lo..hi].
RECURSIVE IntSum(_, _, _)
IntSum(c, lo, hi) == IF lo > hi THEN 0 ELSE IntSum(c, lo, hi - 1) + c[hi]

\* c[k] exceeds the mean of the last w values up to k, of all of them when
\* there are fewer.
AboveMean(c, k, w) ==
    LET lo == IF k - w + 1 > 1 THEN k - w + 1 ELSE 1
    IN  c[k] * (k - lo + 1) > IntSum(c, lo, k)

NonDecreasing(c) == \A k \in 2..Len(c) : c[k - 1] <= c[k]

StrictlyIncreasing(c) == \A k \in 2..Len(c) : c[k - 1] < c[k]

\* The rule "close crosses above SMA(close, w)".
IsCloseCrossesAboveSma(node) ==
    /\ node.type = "cross"
    /\ node.cross_type = "above"
    /\ node.left = FieldNode("close")
    /\ node.right.type = "func"
    /\ Lower(node.right.name) = "sma"
    /\ node.right.args[1] = FieldNode("close")

\* The signal of a section is true at exactly one position: the first one
\* where the close exceeds the mean of its last w values; the position after
\* it is false.
SingleCrossAtFirstAbove(name, w) ==
    LET c == ev_df.close
        hits == { k \in 1..Len(c) : Signal(name)[k] }
    IN  /\ Cardinality(hits) = 1
        /\ \A k \in hits :
              /\ AboveMean(c, k, w)
              /\ \A j \in 1..(k - 1) : ~AboveMean(c, j, w)
              /\ k + 1 <= Len(c) => ~Signal(name)[k + 1]

\* C7 as stated: on closes that never fall and end above their 20-bar SMA
\* (at the first bar the SMA is the close itself, so no series starts above
\* it), "close crosses above SMA(close, 20)" is true at exactly one position,
\* the first one where the close exceeds the SMA, and false everywhere else.
C7_SingleCrossMonotone ==
    \A name \in (IF Evaluated THEN DOMAIN ast ELSE {}) :
       (/\ IsCloseCrossesAboveSma(ast[name])
        /\ ast[name].right.args[2].value = SmaPeriod
        /\ NonDecreasing(ev_df.close)
        /\ Len(ev_df.close) >= 1
        /\ AboveMean(ev_df.close, Len(ev_df.close), SmaPeriod))
       => SingleCrossAtFirstAbove(name, SmaPeriod)

\* C7, amended: on closes that rise at every bar (two bars or more, so that
\* the last close is above its SMA), "close crosses above SMA(close, w)" is
\* true at exactly one position, the first one where the close exceeds the
\* SMA, which is the second bar, and is false everywhere else, the position
\* after it included.
C7_SingleCross ==
    \A name \in (IF Evaluated THEN DOMAIN ast ELSE {}) :
       (/\ IsCloseCrossesAboveSma(ast[name])
        /\ StrictlyIncreasing(ev_df.close)
        /\ Len(ev_df.close) >= 2)
       => /\ AboveMean(ev_df.close, Len(ev_df.close),
                       ast[name].right.args[2].value)
          /\ SingleCrossAtFirstAbove(name, ast[name].right.args[2].value)
          /\ Signal(name)[2]

\* Closes that rise at every bar for two bars more than the 20-bar window
\* holds, under the 20-bar rule: the signal is true at the second bar only.
C7_Witness ==
    /\ Evaluated
    /\ IsCloseCrossesAboveSma(ast.entry)
    /\ ast.entry.right.args[2].value = SmaPeriod
    /\ Len(ev_df.index) >= SmaPeriod + 2
    /\ StrictlyIncreasing(ev_df.close)
    /\ Signal("entry")[2]
    /\ \A k \in 1..Len(ev_df.index) : k # 2 => ~Signal("entry")[k]

\* C20: the frame generate_signals returns has the index of the price frame
\* and one entry and one exit value per bar, and the signal of a section the
\* rule set does not have is False at every bar.
C20_AbsentSectionFalse ==
    Evaluated
    => /\ ev_out[1].val.index = ev_df.index
       /\ DOMAIN ev_out[1].val.entry = 1..Len(ev_df.index)
       /\ DOMAIN ev_out[1].val.exit = 1..Len(ev_df.index)
       /\ \A name \in SignalCols \ DOMAIN ast :
             \A k \in 1..Len(ev_df.index) : ~ev_out[1].val[name][k]

\* A rule set with an entry rule only was evaluated on a frame of at least
\* two bars and the entry signal is set at some bar.
C20_Witness ==
    /\ Evaluated
    /\ DOMAIN ast = {"entry"}
    /\ Len(ev_df.index) >= 2
    /\ \E k \in 1..Len(ev_df.index) : ev_out[1].val.entry[k]
    /\ \A k \in 1..Len(ev_df.index) : ~ev_out[1].val.exit[k]

----------------------------------------------------------------------------
\* Properties of sma

\* The first and the last position (1-based) of the window that ends at
\* position k: at most w positions, fewer at the start of the series.
WindowStart(k, w) == IF k - w + 1 > 1 THEN k - w + 1 ELSE 1

RECURSIVE RatSum(_, _, _)
\* The sum of s[lo..hi].
RatSum(s, lo, hi) ==
    IF lo > hi THEN RatInt(0) ELSE RatAdd(s[hi], RatSum(s, lo, hi - 1))

\* C26: for every window w >= 1 and every position, sma(series, w) is the
\* arithmetic mean of the up to w values that end at the position (of all
\* values so far when there are fewer than w); it has one value per position,
\* none of them missing, and its first value is the series' first value.
C26_SmaShrinkingWindow ==
    sma_out # None
    => LET s == sma_series[1]
           w == sma_window
           out == sma_out[1]
       IN  /\ w >= 1
           /\ DOMAIN out = 1..Len(s)
           /\ \A k \in 1..Len(s) :
                 /\ out[k] # NaN
                 /\ RatMul(out[k], RatInt(k - WindowStart(k, w) + 1))
                      = RatSum(s, WindowStart(k, w), k)
           /\ Len(s) >= 1 => out[1] = s[1]

\* sma with a window of 2 on three values: the first position averages one
\* value, the later ones two, and the result differs from the series.
C26_Witness ==
    /\ sma_out # None
    /\ sma_window = 2
    /\ Len(sma_series[1]) = 3
    /\ sma_out[1][1] = sma_series[1][1]
    /\ sma_out[1][2] # sma_series[1][2]
    /\ sma_out[1][3] # sma_out[1][2]
    /\ sma_out[1][3] # NaN

----------------------------------------------------------------------------
\* Properties of the evaluator on unknown names, lookback names and
\* logical nodes

\* The field a term names: a field term's name or a function call's field.
TermField(t) ==
    IF t.type = "field" THEN t.name
    ELSE IF t.type = "func" THEN t.args[1].name
    ELSE "close"

\* C21: when the right-hand term of the entry rule is a field term or a
\* function call whose field is none of open, high, low, close, volume (with
\* or without a lookback suffix), generate_signals fails with an error and
\* returns no signals, whether or not the frame has a column of that name.
C21_UnknownFieldRejected ==
    (/\ ev_out # None
     /\ "entry" \in DOMAIN ast
     /\ ast.entry.type = "comparison"
     /\ TermField(ast.entry.right) \notin FieldNames \cup LookbackNames)
    => ev_out[1].err # ""

\* The base field and the number of bars of a lookback name.
LookbackBase(name) ==
    CASE name \in {"open_yesterday", "open_last_week"} -> "open"
      [] name \in {"high_yesterday", "high_last_week"} -> "high"
      [] name \in {"low_yesterday", "low_last_week"} -> "low"
      [] name \in {"close_yesterday", "close_last_week"} -> "close"
      [] OTHER -> "volume"

LookbackBars(name) ==
    IF name \in {"open_yesterday", "high_yesterday", "low_yesterday",
                 "close_yesterday", "volume_yesterday"}
    THEN 1 ELSE 5

\* C22: a rule "name op 2" whose name is a field with the suffix _yesterday
\* or _last_week is evaluated on the base field's series shifted forward by
\* 1 or 5 bars: its signal at position k compares the base field's value at
\* position k - 1 (k - 5) and is false where there is no such position.
C22_LookbackShift ==
    (/\ ev_out # None
     /\ "entry" \in DOMAIN ast
     /\ ast.entry.type = "comparison"
     /\ ast.entry.left.name \in LookbackNames)
    => /\ ev_out[1].err = ""
       /\ LET name == ast.entry.left.name
              base == ev_df[LookbackBase(name)]
              n == LookbackBars(name)
          IN  \A k \in 1..Len(ev_df.index) :
                 ev_out[1].val.entry[k]
                   <=> /\ k > n
                       /\ IF ast.entry.op = ">"
                          THEN base[k - n] > ast.entry.right.value
                          ELSE base[k - n] < ast.entry.right.value

\* A leaf of the logical rules holds at position k of the frame.
LeafHolds(leaf, k) ==
    LET x == ev_df[leaf.left.name][k]
        y == leaf.right.value
    IN  CASE leaf.op = ">" -> x > y
          [] leaf.op = ">=" -> x >= y
          [] OTHER -> FALSE

\* C23: an AND node of n >= 2 operands is true at a position exactly when
\* every operand is true there, an OR node exactly when some operand is, and
\* the left-folded chain of two-operand nodes over the same operands gives
\* the same series as the single node.
C23_LogicalEvaluation ==
    (/\ ev_out # None
     /\ "entry" \in DOMAIN ast
     /\ ast.entry.type \in {"and", "or"})
    => /\ ev_out[1].err = ""
       /\ ev_out[1].val.entry = ev_out[1].val.exit
       /\ \A k \in 1..Len(ev_df.index) :
             LET ops == ast.entry.operands
             IN  ev_out[1].val.entry[k]
                   <=> IF ast.entry.type = "and"
                       THEN \A j \in 1..Len(ops) : LeafHolds(ops[j], k)
                       ELSE \E j \in 1..Len(ops) : LeafHolds(ops[j], k)

\* An AND node of three different operands, and its chain, evaluated on a
\* frame where the first two operands hold at a bar and the third decides.
C23_Witness ==
    /\ ev_out # None
    /\ "entry" \in DOMAIN ast
    /\ ast.entry.type = "and"
    /\ Len(ast.entry.operands) = MaxOperands
    /\ ast.exit.operands[1].type = "and"
    /\ ast.entry.operands[1] # ast.entry.operands[2]
    /\ ast.entry.operands[2] # ast.entry.operands[3]
    /\ ast.entry.operands[1] # ast.entry.operands[3]
    /\ \E k \in 1..Len(ev_df.index) :
          /\ LeafHolds(ast.entry.operands[1], k)
          /\ LeafHolds(ast.entry.operands[2], k)
          /\ ~LeafHolds(ast.entry.operands[3], k)
          /\ ~ev_out[1].val.entry[k]
    /\ \E k \in 1..Len(ev_df.index) : ev_out[1].val.entry[k]

----------------------------------------------------------------------------
\* Properties of the parser

\* The text is "ENTRY: field op number" with or without a suffix.
IsNumberRule(ts) ==
    /\ Len(ts) \in {4, 5}
    /\ ts[1].kind = "ENTRY:"
    /\ ts[2].kind = "FIELD"
    /\ ts[3].kind = "OP"
    /\ ts[4].kind = "NUMBER"
    /\ Len(ts) = 5 => ts[5].kind \in {"K", "M"}

\* What the literal of such a text stands for.
LiteralValue(ts) ==
    IF Len(ts) = 4 THEN ts[4].num
    ELSE IF ts[5].kind = "K" THEN 1000 * ts[4].num
    ELSE 1000 * 1000 * ts[4].num

\* C24: the number node of the parsed AST holds the literal's value, times
\* 1,000 with the suffix K and times 1,000,000 with the suffix M, and the
\* evaluator compares the field with exactly that stored value.
C24_LiteralScaling ==
    (parse_out # None /\ IsNumberRule(dsl_text[1]))
    => /\ parse_out[1].err = ""
       /\ parse_out[1].val.entry.right
            = [type |-> "number", value |-> LiteralValue(dsl_text[1])]
       /\ ev_out # None
            => /\ ev_out[1].err = ""
               /\ \A k \in 1..Len(ev_df.index) :
                     LET x == ev_df[dsl_text[1][2].text][k]
                     IN  ev_out[1].val.entry[k]
                           <=> IF dsl_text[1][3].text = ">"
                               THEN x > LiteralValue(dsl_text[1])
                               ELSE x <= LiteralValue(dsl_text[1])

\* "ENTRY: volume > 1K" was parsed to the number 1000 and evaluated on a
\* bar with a volume of 1500, where it holds.
C24_Witness ==
    /\ parse_out # None
    /\ ev_out # None
    /\ IsNumberRule(dsl_text[1])
    /\ Len(dsl_text[1]) = 5
    /\ dsl_text[1][2].text = "volume"
    /\ dsl_text[1][3].text = ">"
    /\ dsl_text[1][4].num = 1
    /\ dsl_text[1][5].kind = "K"
    /\ ast.entry.right.value = 1000
    /\ Len(ev_df.index) = 1
    /\ ev_df.volume[1] = 1500
    /\ ev_out[1].val.entry[1]

\* The kind of the token at position p, "" outside the text.
TokenKind(ts, p) == IF p \in 1..Len(ts) THEN ts[p].kind ELSE ""

\* The text starts with something that is no section header.
UnknownHeader(ts) == ts # <<>> /\ ts[1].kind \notin {"ENTRY:", "EXIT:"}

\* An operator without a term before or after it, or a connective without
\* a rule before or after it.
MissingOperand(ts) ==
    \E p \in 1..Len(ts) :
       \/ /\ ts[p].kind \in {"OP", "CROSSES_ABOVE", "CROSSES_BELOW"}
          /\ \/ TokenKind(ts, p - 1) \notin {"FIELD", "NUMBER", "K", "M", ")"}
             \/ TokenKind(ts, p + 1) \notin {"FIELD", "NUMBER", "SMA", "RSI"}
       \/ /\ ts[p].kind \in {"AND", "OR"}
          /\ \/ TokenKind(ts, p - 1) \notin {"FIELD", "NUMBER", "K", "M", ")"}
             \/ TokenKind(ts, p + 1)
                  \notin {"FIELD", "NUMBER", "SMA", "RSI", "("}

\* The text has more parentheses of one kind than of the other.
UnmatchedParen(ts) ==
    Cardinality({ p \in 1..Len(ts) : ts[p].kind = "(" })
      # Cardinality({ p \in 1..Len(ts) : ts[p].kind = ")" })

\* A function name that is not followed by "(", a field, ",", a number, ")".
WrongArgCount(ts) ==
    \E p \in 1..Len(ts) :
       /\ ts[p].kind \in {"SMA", "RSI"}
       /\ <<TokenKind(ts, p + 1), TokenKind(ts, p + 2), TokenKind(ts, p + 3),
            TokenKind(ts, p + 4), TokenKind(ts, p + 5)>>
            # <<"(", "FIELD", ",", "NUMBER", ")">>

\* The sections a text has a header for.
Headers(ts) ==
    { name \in {"entry", "exit"} :
        \E p \in 1..Len(ts) :
           ts[p].kind = (IF name = "entry" THEN "ENTRY:" ELSE "EXIT:") }

\* C25: a text with an unknown section header, a missing operand, an
\* unmatched parenthesis or a function call without its two arguments makes
\* parse fail; a failed parse returns no AST, and an AST that is returned has
\* a rule for every section of the text.
C25_ParseFailureTerminal ==
    parse_out # None
    => /\ (\/ UnknownHeader(dsl_text[1])
           \/ MissingOperand(dsl_text[1])
           \/ UnmatchedParen(dsl_text[1])
           \/ WrongArgCount(dsl_text[1]))
            => parse_out[1].err # ""
       /\ parse_out[1].err # "" => DOMAIN parse_out[1].val = {}
       /\ parse_out[1].err = ""
            => DOMAIN parse_out[1].val = Headers(dsl_text[1])

\* parse has failed on a text whose ENTRY section is complete and whose
\* EXIT section lacks an operand.
C25_Witness ==
    /\ parse_out # None
    /\ parse_out[1].err # ""
    /\ Headers(dsl_text[1]) = {"entry", "exit"}
    /\ dsl_text[1][1].kind = "ENTRY:"
    /\ TokenKind(dsl_text[1], 5) = "EXIT:"
    /\ MissingOperand(dsl_text[1])
    /\ ~UnknownHeader(dsl_text[1])
    /\ ~UnmatchedParen(dsl_text[1])
    /\ ~WrongArgCount(dsl_text[1])
    /\ dsl_text[1][Len(dsl_text[1])].kind = "OP"

----------------------------------------------------------------------------
====
